---- MODULE Spec2Model ----
(***************************************************************************)
(* Half-float (IEEE 754 binary16) software arithmetic library.             *)
(*                                                                         *)
(* The library is a set of synchronous functions over 16-bit words plus    *)
(* one process-wide variable, current_rounding_mode.  A caller is idle     *)
(* (op = "none"), calls one function (the action computes the whole call   *)
(* and stores its arguments and result), and returns to idle.              *)
(*                                                                         *)
(* Integers of the model are at most 31 bits wide.  Where the C code       *)
(* holds a uint32_t that may reach 2^31 or more (the normalisation probe   *)
(* temp, the 32-bit product of two mantissas, the radicand of              *)
(* square_root), the model computes the same quantity in a form that       *)
(* stays below 2^31; each such place says so.                              *)
(***************************************************************************)
EXTENDS Integers, Sequences, FiniteSets

VARIABLES
    current_rounding_mode, \* hf_common.c: static hf_rounding_mode
    last_set,              \* history: argument of the latest hf_set_rounding_mode
    op,                    \* the function the caller is in, "none" when idle
    hf1, hf2,              \* its encoded arguments
    ret,                   \* its return value
    rec,                   \* the half_float record decompose_half returned
    flt,                   \* the float half_to_float returned
    norm,                  \* the normalize_and_round call made by op, if any
    pc,                    \* where a call that runs beside a setter has got to
    entry_mode             \* history: current_rounding_mode when that call began

vars == <<current_rounding_mode, last_set, op, hf1, hf2, ret, rec, flt, norm, pc, entry_mode>>

----------------------------------------------------------------------------
(* hf_common.h: rounding modes                                             *)
HF_ROUND_NEAREST_EVEN == 0
HF_ROUND_NEAREST_UP == 1
HF_ROUND_TOWARD_ZERO == 2
HF_ROUND_TOWARD_POS_INF == 3
HF_ROUND_TOWARD_NEG_INF == 4

hf_rounding_mode == HF_ROUND_NEAREST_EVEN .. HF_ROUND_TOWARD_NEG_INF

(* hf_common.h: format *)
HF_SIGN_BITS == 15
HF_EXP_BITS == 5
HF_MANT_BITS == 10
HF_EXP_BIAS == 15

HF_MASK_SIGN == 2 ^ HF_SIGN_BITS
HF_MASK_MANT == 2 ^ HF_MANT_BITS - 1
HF_MASK_EXP == 2 ^ HF_EXP_BITS - 1
HF_INFINITY_POS == HF_MASK_EXP * 2 ^ HF_MANT_BITS
HF_INFINITY_NEG == HF_INFINITY_POS + HF_MASK_SIGN
HF_NAN == HF_INFINITY_POS + 2 ^ (HF_MANT_BITS - 1)
HF_ZERO_POS == 0
HF_ZERO_NEG == HF_MASK_SIGN
HF_ONE_POS == HF_EXP_BIAS * 2 ^ HF_MANT_BITS
HF_ONE_NEG == HF_ONE_POS + HF_MASK_SIGN

HF_PRECISION_SHIFT == 5
HF_MANT_SHIFT == HF_MANT_BITS + HF_PRECISION_SHIFT
HF_EXP_FULL == HF_EXP_BIAS + 1
(* The exponent stored for subnormals and zero.  hf_common.c is written    *)
(* for the value it states at decompose_half ("HF_EXP_MIN == -14"): its    *)
(* float_to_half takes HF_EXP_MIN - exp as the subnormal shift and         *)
(* HF_EXP_MIN - HF_MANT_BITS - 1 = -25 as the smallest rounded exponent.   *)
HF_EXP_MIN == -14
HF_MANT_NORM_MIN == 2 ^ HF_MANT_SHIFT
HF_MANT_NORM_MAX == 2 ^ (HF_MANT_SHIFT + 1)
HF_GUARD_BIT == 2 ^ (HF_PRECISION_SHIFT - 1)
HF_ROUND_BIT_MASK == 2 ^ HF_PRECISION_SHIFT - 1

(* uint16_t: the 65536 encoded words *)
UINT16_MAX == 65535
uint16_t == 0 .. UINT16_MAX

----------------------------------------------------------------------------
(* C integer operators on non-negative operands *)
Shl(x, n) == x * 2 ^ n
Shr(x, n) == x \div 2 ^ n
(* x & ((1 << n) - 1) *)
LowBits(x, n) == x % 2 ^ n
(* x & (1 << n), as 0 or 1 *)
Bit(x, n) == (x \div 2 ^ n) % 2
(* conversion to uint16_t *)
U16(x) == x % 65536

(* typedef struct { uint16_t sign; int exp; int32_t mant; } half_float *)
half_float(s, e, m) == [sign |-> s, exp |-> e, mant |-> m]

----------------------------------------------------------------------------
(* hf_common.c: classification *)
is_infinity(hf) == hf.exp = HF_EXP_FULL /\ hf.mant = 0
is_nan(hf) == hf.exp = HF_EXP_FULL /\ hf.mant # 0
is_zero(hf) == hf.exp # HF_EXP_FULL /\ hf.mant = 0
is_subnormal(hf) == hf.exp = HF_EXP_MIN /\ hf.mant < HF_MANT_NORM_MIN

(* hf_common.c: decompose_half *)
decompose_half(hf) ==
    LET exp == LowBits(Shr(hf, HF_MANT_BITS), HF_EXP_BITS)
        sign == Bit(hf, HF_SIGN_BITS) * HF_MASK_SIGN
        mant == Shl(LowBits(hf, HF_MANT_BITS), HF_PRECISION_SHIFT)
    IN  IF exp = 0 THEN half_float(sign, HF_EXP_MIN, mant)
        ELSE IF exp = HF_MASK_EXP THEN half_float(sign, HF_EXP_FULL, mant)
        ELSE half_float(sign, exp - HF_EXP_BIAS, mant + HF_MANT_NORM_MIN)

(* compose_half with the subnormal mantissa taken one bit too far right *)
compose_half_subnormal_shift(hf) ==
    IF hf.exp = HF_EXP_FULL
    THEN U16(hf.sign + (IF hf.mant # 0 THEN HF_NAN ELSE HF_INFINITY_POS))
    ELSE IF Bit(hf.mant, HF_MANT_SHIFT) = 1
    THEN U16(hf.sign + Shl((hf.exp + HF_EXP_BIAS) % (HF_MASK_EXP + 1), HF_MANT_BITS)
             + LowBits(Shr(hf.mant, HF_PRECISION_SHIFT), HF_MANT_BITS))
    ELSE U16(hf.sign + LowBits(Shr(hf.mant, HF_PRECISION_SHIFT + 1), HF_MANT_BITS))

(* hf_common.c: compose_half.  mant is non-negative wherever it is called. *)
compose_half(hf) ==
    IF hf.exp = HF_EXP_FULL
    THEN U16(hf.sign + (IF hf.mant # 0 THEN HF_NAN ELSE HF_INFINITY_POS))
    ELSE IF Bit(hf.mant, HF_MANT_SHIFT) = 1
    THEN LET exp_bits == (hf.exp + HF_EXP_BIAS) % (HF_MASK_EXP + 1)
             mant_bits == LowBits(Shr(hf.mant, HF_PRECISION_SHIFT), HF_MANT_BITS)
         IN  U16(hf.sign + Shl(exp_bits, HF_MANT_BITS) + mant_bits)
    ELSE LET mant_bits == LowBits(Shr(hf.mant, HF_PRECISION_SHIFT), HF_MANT_BITS)
         IN  U16(hf.sign + mant_bits)

----------------------------------------------------------------------------
(* A float (IEEE 754 binary32) is held as the three fields of its 32-bit   *)
(* pattern: sign (bit 31), exp (bits 30..23), mant (bits 22..0).           *)
float_bits(s, e, m) == [sign |-> s, exp |-> e, mant |-> m]

(* half_to_float: while(!(mant & (1U << HF_MANT_BITS))) {mant <<= 1; shift++;} *)
RECURSIVE half_to_float_normalize(_, _)
half_to_float_normalize(mant, shift) ==
    IF Bit(mant, HF_MANT_BITS) = 1 THEN <<mant, shift>>
    ELSE half_to_float_normalize(Shl(mant, 1), shift + 1)

(* hf_common.c: half_to_float *)
half_to_float(hf) ==
    LET sign == Bit(hf, HF_SIGN_BITS)
        exp == LowBits(Shr(hf, HF_MANT_BITS), HF_EXP_BITS)
        mant == LowBits(hf, HF_MANT_BITS)
    IN  IF exp = HF_MASK_EXP
        THEN IF mant # 0
             (* (mant << 13) | 0x400000: bit 22 is bit 9 of mant *)
             THEN float_bits(sign, 255,
                      Shl(mant, 13) + (IF Bit(mant, 9) = 1 THEN 0 ELSE 4194304))
             ELSE float_bits(sign, 255, 0)
        ELSE IF exp = 0
        THEN IF mant # 0
             THEN LET n == half_to_float_normalize(mant, 0)
                  IN  float_bits(sign, 113 - n[2], Shl(LowBits(n[1], HF_MANT_BITS), 13))
             ELSE float_bits(sign, 0, 0)
        ELSE float_bits(sign, exp + 112, Shl(mant, 13))

(* float_to_half with the subnormal range taken from -HF_EXP_BIAS *)
float_to_half_bias_minimum(f) ==
    LET exp == f.exp - 127
        result == Shl(f.sign, HF_SIGN_BITS)
    IN  IF exp > HF_EXP_BIAS
        THEN U16(result + (IF f.mant # 0 THEN HF_NAN ELSE HF_INFINITY_POS))
        ELSE IF exp > -HF_EXP_BIAS
        THEN LET m1 == f.mant + 4096
                 carry == Bit(m1, 23) = 1
                 exp_biased == exp + HF_EXP_BIAS + (IF carry THEN 1 ELSE 0)
                 m2 == IF carry THEN 0 ELSE m1
             IN  U16(result + (IF exp_biased > HF_MASK_EXP THEN HF_INFINITY_POS
                               ELSE Shl(exp_biased, HF_MANT_BITS) + Shr(m2, 13)))
        ELSE IF exp >= -HF_EXP_BIAS - HF_MANT_BITS - 1
        THEN U16(result + Shr(Shr(f.mant + 8388608, -HF_EXP_BIAS - exp) + 4096, 13))
        ELSE U16(result)

(* hf_common.c: float_to_half *)
float_to_half(f) ==
    LET exp == f.exp - 127
        result == Shl(f.sign, HF_SIGN_BITS)
    IN  IF exp > HF_EXP_BIAS
        THEN U16(result + (IF f.mant # 0 THEN HF_NAN ELSE HF_INFINITY_POS))
        ELSE IF exp > HF_EXP_MIN
        THEN LET m1 == f.mant + 4096
                 carry == Bit(m1, 23) = 1
                 exp_biased == exp + HF_EXP_BIAS + (IF carry THEN 1 ELSE 0)
                 m2 == IF carry THEN 0 ELSE m1
             IN  U16(result + (IF exp_biased > HF_MASK_EXP THEN HF_INFINITY_POS
                               ELSE Shl(exp_biased, HF_MANT_BITS) + Shr(m2, 13)))
        ELSE IF exp >= HF_EXP_MIN - HF_MANT_BITS - 1
        THEN LET shift == HF_EXP_MIN - exp
                 m1 == Shr(f.mant + 8388608, shift)
             IN  U16(result + Shr(m1 + 4096, 13))
        ELSE U16(result)

----------------------------------------------------------------------------
(* should_round_up with the nearest-even case breaking ties upward *)
should_round_up_ties_upward(round_bits, lsb, sign, mode) ==
    CASE mode = HF_ROUND_NEAREST_EVEN -> round_bits >= HF_GUARD_BIT
      [] mode = HF_ROUND_NEAREST_UP -> round_bits >= HF_GUARD_BIT
      [] mode = HF_ROUND_TOWARD_POS_INF -> sign = 0 /\ round_bits # 0
      [] mode = HF_ROUND_TOWARD_NEG_INF -> sign # 0 /\ round_bits # 0
      [] OTHER -> FALSE

(* hf_common.c: should_round_up.  mode is the value of                     *)
(* current_rounding_mode that the switch reads.                            *)
should_round_up(round_bits, lsb, sign, mode) ==
    CASE mode = HF_ROUND_NEAREST_EVEN ->
            round_bits > HF_GUARD_BIT \/ (round_bits = HF_GUARD_BIT /\ lsb # 0)
      [] mode = HF_ROUND_NEAREST_UP -> round_bits >= HF_GUARD_BIT
      [] mode = HF_ROUND_TOWARD_POS_INF -> sign = 0 /\ round_bits # 0
      [] mode = HF_ROUND_TOWARD_NEG_INF -> sign # 0 /\ round_bits # 0
      [] OTHER -> FALSE

(* normalize_and_round: temp <<= shift; while((int32_t)temp > 0) {temp <<= 1; shift++;} *)
(* (int32_t)(mant << shift) > 0 exactly when mant * 2^shift < 2^31, for mant # 0,       *)
(* that is when shift < 31 and mant / 2 < 2^(30 - shift).                               *)
msb_shift_continues(mant, shift) == shift < 31 /\ mant \div 2 < 2 ^ (30 - shift)

RECURSIVE msb_shift_loop(_, _)
msb_shift_loop(mant, shift) ==
    IF msb_shift_continues(mant, shift)
    THEN msb_shift_loop(mant, shift + 1)
    ELSE shift

(* a search for the MSB that starts at bit 0 whatever the mantissa *)
msb_probe_none(mant) == 0

(* normalize_and_round: the shift the search for the MSB starts with, by   *)
(* whole bytes                                                             *)
msb_probe(mant) ==
    IF mant > 16777215 THEN 0
    ELSE IF mant > 65535 THEN 8
    ELSE IF mant > 255 THEN 16
    ELSE 24

(* normalize_and_round: the number of left shifts that bring the MSB to bit 31 *)
msb_shift(mant) == msb_shift_loop(mant, msb_probe(mant))

(* normalize_and_round: the normalisation shift, positive to the left,     *)
(* limited so that the exponent does not pass below HF_EXP_MIN             *)
normalize_shift(result) ==
    LET probe == msb_shift(result.mant) - (HF_MANT_SHIFT + 1)
        margin == result.exp - HF_EXP_MIN
    IN  IF probe > margin THEN margin ELSE probe

(* normalize_and_round: the rounding step, on the sign of the record and   *)
(* the exponent e1 and mantissa m1 left by the normalisation shift         *)
normalize_rounding(sign, e1, m1, mode) ==
    LET round_bits == LowBits(m1, HF_PRECISION_SHIFT)
        lsb == Bit(m1, HF_PRECISION_SHIFT) * 2 ^ HF_PRECISION_SHIFT
        up == /\ Bit(m1, HF_PRECISION_SHIFT - 1) = 1
              /\ should_round_up(round_bits, lsb, sign, mode)
        m2 == IF up THEN m1 + 2 ^ HF_PRECISION_SHIFT ELSE m1
    IN  IF up /\ m2 >= HF_MANT_NORM_MAX
        THEN half_float(sign, e1 + 1, Shr(m2, 1))
        ELSE half_float(sign, e1, m2)

(* normalize_and_round: the mantissa after the normalisation shift, for a  *)
(* shift of less than the width of the mantissa                            *)
normalize_shifted(mant, shift) ==
    IF shift > 0 THEN Shl(mant, shift)
    ELSE IF shift = -31 THEN 0
    ELSE IF shift < 0 THEN Shr(mant, -shift)
    ELSE mant

(* normalize_and_round: normalisation and rounding of a nonzero mantissa *)
normalize_nonzero(result, mode) ==
    normalize_rounding(result.sign, result.exp - normalize_shift(result),
                       normalize_shifted(result.mant, normalize_shift(result)), mode)

(* normalize_and_round: the final clearing of the five precision bits      *)
normalize_and_round_clear(edge) ==
    half_float(edge.sign, edge.exp,
               edge.mant - LowBits(edge.mant, HF_PRECISION_SHIFT))

(* normalize_and_round: the overflow and underflow branches, on the        *)
(* record n left by the normalisation and rounding step                    *)
normalize_and_round_limits(n) ==
    normalize_and_round_clear(
        IF n.exp > HF_EXP_BIAS THEN half_float(n.sign, HF_EXP_FULL, 0)
        ELSE IF n.exp < HF_EXP_MIN
        THEN half_float(n.sign, HF_EXP_MIN,
                 IF HF_EXP_MIN - n.exp < HF_MANT_SHIFT + 1
                 THEN Shr(n.mant + 2 ^ (HF_EXP_MIN - n.exp - 1),
                          HF_EXP_MIN - n.exp)
                 ELSE 0)
        ELSE n)

(* hf_common.c: normalize_and_round *)
normalize_and_round(result, mode) ==
    normalize_and_round_limits(
        IF result.mant # 0 THEN normalize_nonzero(result, mode) ELSE result)

(* result->mant >>= -shift with -shift of 32 or more, which C leaves       *)
(* undefined: a build either takes the count modulo the width of the       *)
(* register ("masked") or shifts every bit out ("cleared")                 *)
WIDTH == 32
WideShiftOutcomes == {"masked", "cleared"}
shift_right_wide(mant, count, wide) ==
    IF wide = "masked" THEN normalize_shifted(mant, -(count % WIDTH)) ELSE 0

(* normalize_and_round, in a build whose out-of-width shifts behave as wide *)
normalize_and_round_wide(result, mode, wide) ==
    IF result.mant # 0 /\ normalize_shift(result) <= -WIDTH
    THEN normalize_and_round_limits(
             normalize_rounding(result.sign, result.exp - normalize_shift(result),
                 shift_right_wide(result.mant, -normalize_shift(result), wide), mode))
    ELSE normalize_and_round(result, mode)

(* align_mantissas: the mantissa of the operand with the smaller exponent  *)
(* after the right shift by shift, lost bits folded into bit 0             *)
align_shifted(mant, shift) ==
    LET capped == IF shift > 31 THEN 31 ELSE shift
    IN  IF capped > 0 /\ capped < 31
        THEN LET lost == LowBits(mant, capped)
                 kept == Shr(mant, capped)
             IN  IF lost # 0 /\ kept % 2 = 0 THEN kept + 1 ELSE kept
        ELSE IF capped >= 31 THEN (IF mant # 0 THEN 1 ELSE 0)
        ELSE mant

(* hf_common.c: align_mantissas; returns the two records as modified *)
align_mantissas(a, b) ==
    IF a.exp > b.exp
    THEN <<a, half_float(b.sign, a.exp, align_shifted(b.mant, a.exp - b.exp))>>
    ELSE IF b.exp > a.exp
    THEN <<half_float(a.sign, b.exp, align_shifted(a.mant, b.exp - a.exp)), b>>
    ELSE <<a, b>>

(* normalize_denormalized_mantissa: while(hf->mant <= (HF_MANT_NORM_MIN >> 1)) *)
normalize_denormalized_continues(hf) == hf.mant <= Shr(HF_MANT_NORM_MIN, 1)
normalize_denormalized_step(hf) == half_float(hf.sign, hf.exp - 1, Shl(hf.mant, 1))

RECURSIVE normalize_denormalized_loop(_)
normalize_denormalized_loop(hf) ==
    IF normalize_denormalized_continues(hf)
    THEN normalize_denormalized_loop(normalize_denormalized_step(hf))
    ELSE hf

(* hf_common.c: normalize_denormalized_mantissa *)
normalize_denormalized_mantissa(hf) ==
    IF hf.mant # 0 THEN normalize_denormalized_loop(hf) ELSE hf

(* hf_set_rounding_mode keeping two bits of the mode *)
hf_set_rounding_mode_two_bits(mode) == mode % 4

(* hf_common.c: hf_set_rounding_mode, the value stored *)
hf_set_rounding_mode(mode) == mode

(* hf_common.c: hf_get_rounding_mode, given the stored value *)
hf_get_rounding_mode(stored) == stored

----------------------------------------------------------------------------
(* What an operation holds when it reaches compose_half: the record, and   *)
(* whether it called normalize_and_round on the way (the record is then    *)
(* the argument of that call).                                             *)
Direct(r) == [round |-> FALSE, result |-> r]
Rounded(r) == [round |-> TRUE, result |-> r]

(* return compose_half(&result), after normalize_and_round where called *)
Finish(u, mode) ==
    compose_half(IF u.round THEN normalize_and_round(u.result, mode) ELSE u.result)

(* the normalize_and_round call of an operation, for the history variable *)
NormCall(u, mode) ==
    IF u.round
    THEN [called |-> TRUE, in |-> u.result, out |-> normalize_and_round(u.result, mode)]
    ELSE [called |-> FALSE, in |-> half_float(0, 0, 0), out |-> half_float(0, 0, 0)]

(* first_nan_sign giving priority to the second operand *)
first_nan_sign_second_first(input1, input2) ==
    IF is_nan(input2) THEN input2.sign ELSE input1.sign

(* hf_add, hf_mul, hf_div: is_nan(&input1) ? input1.sign : input2.sign *)
first_nan_sign(input1, input2) ==
    IF is_nan(input1) THEN input1.sign ELSE input2.sign

(* hf_add up to its normalize_and_round call *)
hf_add_unrounded(w1, w2) ==
    LET input1 == decompose_half(w1)
        input2 == decompose_half(w2)
    IN  IF is_nan(input1) \/ is_nan(input2)
        THEN Direct(half_float(first_nan_sign(input1, input2), HF_EXP_FULL, 1))
        ELSE IF is_infinity(input1) \/ is_infinity(input2)
        THEN IF is_infinity(input1) /\ is_infinity(input2)
             THEN IF input1.sign # input2.sign
                  THEN Direct(half_float(HF_ZERO_NEG, HF_EXP_FULL, 1))
                  ELSE Direct(input1)
             ELSE Direct(IF is_infinity(input1) THEN input1 ELSE input2)
        ELSE IF is_zero(input1) /\ is_zero(input2)
        THEN Direct(half_float(
                 IF input1.sign # 0 /\ input2.sign # 0 THEN HF_ZERO_NEG ELSE HF_ZERO_POS,
                 0, 0))
        ELSE LET al == align_mantissas(input1, input2)
                 sum == (IF al[1].sign # 0 THEN -al[1].mant ELSE al[1].mant)
                        + (IF al[2].sign # 0 THEN -al[2].mant ELSE al[2].mant)
             IN  IF sum < 0
                 THEN Rounded(half_float(HF_ZERO_NEG, al[1].exp, -sum))
                 ELSE Rounded(half_float(HF_ZERO_POS, al[1].exp, sum))

(* hf_lib_arith.c: hf_add *)
hf_add(w1, w2, mode) == Finish(hf_add_unrounded(w1, w2), mode)

(* hf2 with its sign bit cleared instead of flipped *)
flip_sign_cleared(w) == w % HF_MASK_SIGN

(* hf2 ^ HF_ZERO_NEG *)
flip_sign(w) == IF Bit(w, HF_SIGN_BITS) = 1 THEN w - HF_MASK_SIGN ELSE w + HF_MASK_SIGN

(* hf_lib_arith.c: hf_sub *)
hf_sub(w1, w2, mode) == hf_add(w1, flip_sign(w2), mode)

(* hf_mul: (uint32_t)(input1.mant * input2.mant) >> HF_MANT_SHIFT.  Both   *)
(* mantissas are below 2^16, so the product is below 2^32 and the C value  *)
(* is floor(a * b / 2^15); computed here in two parts that stay below 2^31 *)
mult_shifted(a, b) ==
    LET bh == b \div 256
        bl == b % 256
    IN  (a * bh + (a * bl) \div 256) \div 128

(* hf_mul with the zero test placed before the zero-times-Infinity test *)
hf_mul_unrounded_zero_first(w1, w2) ==
    LET input1 == decompose_half(w1)
        input2 == decompose_half(w2)
        sign == IF input1.sign = input2.sign THEN HF_ZERO_POS ELSE HF_ZERO_NEG
    IN  IF is_nan(input1) \/ is_nan(input2)
        THEN Direct(half_float(first_nan_sign(input1, input2), HF_EXP_FULL, 1))
        ELSE IF is_zero(input1) \/ is_zero(input2)
        THEN Direct(half_float(sign, -HF_EXP_BIAS, 0))
        ELSE IF ~is_infinity(input1) /\ ~is_infinity(input2)
        THEN Rounded(half_float(sign, input1.exp + input2.exp,
                                mult_shifted(input1.mant, input2.mant)))
        ELSE Direct(half_float(sign, HF_EXP_FULL, 0))

(* hf_mul up to its normalize_and_round call *)
hf_mul_unrounded(w1, w2) ==
    LET input1 == decompose_half(w1)
        input2 == decompose_half(w2)
        sign == IF input1.sign = input2.sign THEN HF_ZERO_POS ELSE HF_ZERO_NEG
    IN  IF is_nan(input1) \/ is_nan(input2)
        THEN Direct(half_float(first_nan_sign(input1, input2), HF_EXP_FULL, 1))
        ELSE IF \/ is_infinity(input1) /\ is_zero(input2)
                \/ is_infinity(input2) /\ is_zero(input1)
        THEN Direct(half_float(HF_ZERO_NEG, HF_EXP_FULL, 1))
        ELSE IF is_zero(input1) \/ is_zero(input2)
        THEN Direct(half_float(sign, -HF_EXP_BIAS, 0))
        ELSE IF ~is_infinity(input1) /\ ~is_infinity(input2)
        THEN Rounded(half_float(sign, input1.exp + input2.exp,
                                mult_shifted(input1.mant, input2.mant)))
        ELSE Direct(half_float(sign, HF_EXP_FULL, 0))

(* hf_lib_arith.c: hf_mul *)
hf_mul(w1, w2, mode) == Finish(hf_mul_unrounded(w1, w2), mode)

(* hf_lib_arith.c: hf_div up to its normalize_and_round call *)
hf_div_unrounded(w1, w2) ==
    LET input1 == decompose_half(w1)
        input2 == decompose_half(w2)
        sign == IF input1.sign = input2.sign THEN HF_ZERO_POS ELSE HF_ZERO_NEG
    IN  IF is_nan(input1) \/ is_nan(input2)
        THEN Direct(half_float(first_nan_sign(input1, input2), HF_EXP_FULL, 1))
        ELSE IF is_infinity(input1) /\ is_infinity(input2)
        THEN Direct(half_float(HF_ZERO_NEG, HF_EXP_FULL, 1))
        ELSE IF is_infinity(input1) \/ is_zero(input2)
        THEN Direct(half_float(sign, HF_EXP_FULL, 0))
        ELSE IF is_infinity(input2) \/ is_zero(input1)
        THEN Direct(half_float(sign, -HF_EXP_BIAS, 0))
        ELSE IF ~(is_zero(input1) /\ is_zero(input2))
        THEN LET dividend == Shl(input1.mant, HF_MANT_SHIFT)
                 quotient == dividend \div input2.mant
                 mant == IF dividend % input2.mant # 0 /\ quotient % 2 = 0
                         THEN quotient + 1 ELSE quotient
             IN  Rounded(half_float(sign, input1.exp - input2.exp, mant))
        ELSE Direct(half_float(sign, HF_EXP_FULL, 1))

(* hf_lib_arith.c: hf_div *)
hf_div(w1, w2, mode) == Finish(hf_div_unrounded(w1, w2), mode)

(* hf_lib_arith.c: hf_inv up to its normalize_and_round call *)
hf_inv_unrounded(w) ==
    LET input == decompose_half(w)
    IN  IF is_infinity(input) THEN Direct(half_float(input.sign, -HF_EXP_BIAS, 0))
        ELSE IF is_zero(input) THEN Direct(half_float(input.sign, HF_EXP_FULL, 0))
        ELSE IF ~is_nan(input)
        THEN LET dividend == Shl(HF_MANT_NORM_MIN, HF_MANT_SHIFT)
             IN  Rounded(half_float(input.sign, -input.exp, dividend \div input.mant))
        ELSE Direct(half_float(input.sign, HF_EXP_FULL, 1))

(* hf_lib_arith.c: hf_inv *)
hf_inv(w, mode) == Finish(hf_inv_unrounded(w), mode)

(* square_root: value = ROL32(value, 2); value & 3 at iteration i (0..15), *)
(* that is bits 31-2i and 30-2i of value.  value is mant << lshift, which  *)
(* can reach 2^31, so the two bits are taken from mant.                    *)
square_root_digit(mant, lshift, i) ==
    LET sh == 30 - 2 * i - lshift
    IN  IF sh >= 0 THEN Shr(mant, sh) % 4 ELSE Shl(mant % 4, -sh) % 4

(* square_root: the while(--loop >= 0) loop, i iterations done *)
SQUARE_ROOT_LOOPS == 16

(* square_root: one pass of the loop body, the i-th, on root and rest *)
square_root_step(mant, lshift, i, root, rest) ==
    LET rest1 == rest * 4 + square_root_digit(mant, lshift, i)
        trial == root * 4 + 1
    IN  IF rest1 >= trial
        THEN [root |-> Shr(trial, 1) + 1, rest |-> rest1 - trial]
        ELSE [root |-> Shr(trial, 1), rest |-> rest1]

RECURSIVE square_root_loop(_, _, _, _, _)
square_root_loop(mant, lshift, i, root, rest) ==
    IF i = SQUARE_ROOT_LOOPS THEN root
    ELSE square_root_loop(mant, lshift, i + 1,
                          square_root_step(mant, lshift, i, root, rest).root,
                          square_root_step(mant, lshift, i, root, rest).rest)

(* hf_lib_arith.c: square_root(mant << lshift) *)
square_root(mant, lshift) == square_root_loop(mant, lshift, 0, 0, 0)

(* the root taken without the extra shift for an odd exponent *)
root_of_no_odd_shift(input) ==
    [root |-> square_root(normalize_denormalized_mantissa(input).mant, 15),
     exp |-> IF normalize_denormalized_mantissa(input).exp % 2 = 1
             THEN normalize_denormalized_mantissa(input).exp - 1
             ELSE normalize_denormalized_mantissa(input).exp]

(* hf_sqrt, hf_rsqrt: the root and the halved exponent of a finite nonzero *)
(* input: normalize_denormalized_mantissa, value = mant << 15, one more    *)
(* shift and exp-- when the exponent is odd, square_root(value)            *)
root_of(input) ==
    LET n == normalize_denormalized_mantissa(input)
        odd == n.exp % 2 = 1
        exp == IF odd THEN n.exp - 1 ELSE n.exp
    IN  [root |-> square_root(n.mant, IF odd THEN 16 ELSE 15), exp |-> exp]

(* hf_sqrt with the test for Infinity made without the sign *)
hf_sqrt_unrounded_any_infinity(w) ==
    IF is_zero(decompose_half(w)) THEN Direct(half_float(decompose_half(w).sign, decompose_half(w).exp, 0))
    ELSE IF is_infinity(decompose_half(w)) THEN Direct(half_float(HF_ZERO_POS, HF_EXP_FULL, 0))
    ELSE Direct(half_float(HF_ZERO_POS, HF_EXP_FULL, 1))

(* hf_lib_arith.c: hf_sqrt up to its normalize_and_round call *)
hf_sqrt_unrounded(w) ==
    LET input == decompose_half(w)
    IN  IF is_zero(input) THEN Direct(half_float(input.sign, input.exp, 0))
        ELSE IF is_infinity(input) /\ input.sign = 0
        THEN Direct(half_float(HF_ZERO_POS, HF_EXP_FULL, 0))
        ELSE IF input.sign = 0 /\ ~is_infinity(input) /\ ~is_nan(input)
        THEN LET r == root_of(input)
             IN  IF r.root > 0
                 THEN Rounded(half_float(HF_ZERO_POS, r.exp \div 2, r.root))
                 ELSE Direct(half_float(HF_ZERO_POS, HF_EXP_FULL, 1))
        ELSE Direct(half_float(HF_ZERO_POS, HF_EXP_FULL, 1))

(* hf_lib_arith.c: hf_sqrt *)
hf_sqrt(w, mode) == Finish(hf_sqrt_unrounded(w), mode)

(* hf_rsqrt: (1U << 31) / root, in two parts that stay below 2^31 *)
one_over(root) ==
    LET half == 1073741824
    IN  (half \div root) * 2 + ((half % root) * 2) \div root

(* hf_lib_arith.c: hf_rsqrt up to its normalize_and_round call *)
hf_rsqrt_unrounded(w) ==
    LET input == decompose_half(w)
    IN  IF is_nan(input) \/ (input.sign # 0 /\ ~is_zero(input))
        THEN Direct(half_float(HF_ZERO_POS, HF_EXP_FULL, 1))
        ELSE IF is_infinity(input) THEN Direct(half_float(HF_ZERO_POS, 0, 0))
        ELSE IF ~is_zero(input)
        THEN LET r == root_of(input)
             IN  IF r.root > 0
                 THEN Rounded(half_float(HF_ZERO_POS, -(r.exp \div 2) - 1, one_over(r.root)))
                 ELSE Direct(half_float(HF_ZERO_POS, HF_EXP_FULL, 0))
        ELSE Direct(half_float(HF_ZERO_POS, HF_EXP_FULL, 0))

(* hf_lib_arith.c: hf_rsqrt *)
hf_rsqrt(w, mode) == Finish(hf_rsqrt_unrounded(w), mode)

(* compare_half: ((a < b) ^ input1->sign) ? -1 : 1.  The comparison is 0   *)
(* or 1 and sign is 0 or HF_MASK_SIGN, so the XOR is their sum.            *)
xor_order(less, sign) ==
    IF (IF less THEN 1 ELSE 0) + sign # 0 THEN -1 ELSE 1

(* hf_lib_common.c: compare_half *)
compare_half(input1, input2) ==
    IF is_nan(input1) \/ is_nan(input2) THEN -2
    ELSE IF input1.sign # input2.sign THEN (IF input1.sign # 0 THEN -1 ELSE 1)
    ELSE IF input1.exp # input2.exp
    THEN xor_order(input1.exp < input2.exp, input1.sign)
    ELSE IF input1.mant # input2.mant
    THEN xor_order(input1.mant < input2.mant, input1.sign)
    ELSE 0

(* hf_lib_misc.c: hf_cmp *)
hf_cmp(w1, w2) == compare_half(decompose_half(w1), decompose_half(w2))

(* hf_lib_misc.c: hf_min *)
hf_min(w1, w2) ==
    LET input1 == decompose_half(w1)
        input2 == decompose_half(w2)
        cmp == compare_half(input1, input2)
    IN  IF is_nan(input1) /\ is_nan(input2) THEN HF_NAN
        ELSE IF is_nan(input1) THEN w2
        ELSE IF is_nan(input2) THEN w1
        ELSE IF cmp = 0 /\ is_zero(input1) /\ is_zero(input2)
        THEN (IF input1.sign # 0 \/ input2.sign # 0 THEN HF_ZERO_NEG ELSE HF_ZERO_POS)
        ELSE IF cmp > 0 THEN w2
        ELSE w1

(* hf_lib_misc.c: hf_max *)
hf_max(w1, w2) ==
    LET input1 == decompose_half(w1)
        input2 == decompose_half(w2)
        cmp == compare_half(input1, input2)
    IN  IF is_nan(input1) /\ is_nan(input2) THEN HF_NAN
        ELSE IF is_nan(input1) THEN w2
        ELSE IF is_nan(input2) THEN w1
        ELSE IF cmp = 0 /\ is_zero(input1) /\ is_zero(input2)
        THEN (IF input1.sign # 0 /\ input2.sign # 0 THEN HF_ZERO_NEG ELSE HF_ZERO_POS)
        ELSE IF cmp < 0 THEN w2
        ELSE w1

----------------------------------------------------------------------------
(* hf_precalc.h *)
LN_TABLE_SIZE == 1024
EXP_TABLE_SIZE_SHIFT == 8
EXP_TABLE_SIZE == 2 ^ EXP_TABLE_SIZE_SHIFT
LNI_2 == 22713

(* hf_precalc.c: the contents fill_ln_table and fill_exp_table compute     *)
(* (C index i is element i + 1 here)                                       *)
ln_table ==
    <<0, 32, 64, 96, 128, 160, 191, 223, 255, 287, 318, 350,
      382, 413, 445, 477, 508, 540, 571, 602, 634, 665, 697, 728,
      759, 790, 822, 853, 884, 915, 946, 977, 1008, 1039, 1070, 1101,
      1132, 1163, 1194, 1225, 1256, 1286, 1317, 1348, 1379, 1409, 1440, 1471,
      1501, 1532, 1562, 1593, 1623, 1654, 1684, 1714, 1745, 1775, 1805, 1836,
      1866, 1896, 1926, 1956, 1987, 2017, 2047, 2077, 2107, 2137, 2167, 2197,
      2227, 2256, 2286, 2316, 2346, 2376, 2406, 2435, 2465, 2495, 2524, 2554,
      2583, 2613, 2643, 2672, 2702, 2731, 2760, 2790, 2819, 2849, 2878, 2907,
      2936, 2966, 2995, 3024, 3053, 3082, 3111, 3141, 3170, 3199, 3228, 3257,
      3286, 3315, 3343, 3372, 3401, 3430, 3459, 3488, 3516, 3545, 3574, 3603,
      3631, 3660, 3688, 3717, 3746, 3774, 3803, 3831, 3860, 3888, 3916, 3945,
      3973, 4001, 4030, 4058, 4086, 4115, 4143, 4171, 4199, 4227, 4255, 4283,
      4311, 4340, 4368, 4396, 4424, 4451, 4479, 4507, 4535, 4563, 4591, 4619,
      4646, 4674, 4702, 4730, 4757, 4785, 4813, 4840, 4868, 4895, 4923, 4950,
      4978, 5005, 5033, 5060, 5088, 5115, 5143, 5170, 5197, 5224, 5252, 5279,
      5306, 5333, 5361, 5388, 5415, 5442, 5469, 5496, 5523, 5550, 5577, 5604,
      5631, 5658, 5685, 5712, 5739, 5766, 5792, 5819, 5846, 5873, 5900, 5926,
      5953, 5980, 6006, 6033, 6060, 6086, 6113, 6139, 6166, 6192, 6219, 6245,
      6272, 6298, 6324, 6351, 6377, 6403, 6430, 6456, 6482, 6509, 6535, 6561,
      6587, 6613, 6640, 6666, 6692, 6718, 6744, 6770, 6796, 6822, 6848, 6874,
      6900, 6926, 6952, 6977, 7003, 7029, 7055, 7081, 7107, 7132, 7158, 7184,
      7209, 7235, 7261, 7286, 7312, 7338, 7363, 7389, 7414, 7440, 7465, 7491,
      7516, 7542, 7567, 7592, 7618, 7643, 7668, 7694, 7719, 7744, 7770, 7795,
      7820, 7845, 7870, 7896, 7921, 7946, 7971, 7996, 8021, 8046, 8071, 8096,
      8121, 8146, 8171, 8196, 8221, 8246, 8271, 8295, 8320, 8345, 8370, 8395,
      8419, 8444, 8469, 8494, 8518, 8543, 8568, 8592, 8617, 8641, 8666, 8691,
      8715, 8740, 8764, 8789, 8813, 8837, 8862, 8886, 8911, 8935, 8959, 8984,
      9008, 9032, 9057, 9081, 9105, 9129, 9154, 9178, 9202, 9226, 9250, 9274,
      9299, 9323, 9347, 9371, 9395, 9419, 9443, 9467, 9491, 9515, 9539, 9562,
      9586, 9610, 9634, 9658, 9682, 9706, 9729, 9753, 9777, 9801, 9824, 9848,
      9872, 9895, 9919, 9943, 9966, 9990, 10013, 10037, 10061, 10084, 10108, 10131,
      10155, 10178, 10202, 10225, 10248, 10272, 10295, 10319, 10342, 10365, 10389, 10412,
      10435, 10458, 10482, 10505, 10528, 10551, 10574, 10598, 10621, 10644, 10667, 10690,
      10713, 10736, 10759, 10782, 10805, 10828, 10851, 10874, 10897, 10920, 10943, 10966,
      10989, 11012, 11035, 11058, 11080, 11103, 11126, 11149, 11171, 11194, 11217, 11240,
      11262, 11285, 11308, 11330, 11353, 11376, 11398, 11421, 11443, 11466, 11489, 11511,
      11534, 11556, 11579, 11601, 11623, 11646, 11668, 11691, 11713, 11735, 11758, 11780,
      11803, 11825, 11847, 11869, 11892, 11914, 11936, 11958, 11981, 12003, 12025, 12047,
      12069, 12091, 12114, 12136, 12158, 12180, 12202, 12224, 12246, 12268, 12290, 12312,
      12334, 12356, 12378, 12400, 12422, 12444, 12465, 12487, 12509, 12531, 12553, 12575,
      12596, 12618, 12640, 12662, 12683, 12705, 12727, 12749, 12770, 12792, 12814, 12835,
      12857, 12878, 12900, 12922, 12943, 12965, 12986, 13008, 13029, 13051, 13072, 13094,
      13115, 13137, 13158, 13179, 13201, 13222, 13244, 13265, 13286, 13308, 13329, 13350,
      13372, 13393, 13414, 13435, 13457, 13478, 13499, 13520, 13541, 13562, 13584, 13605,
      13626, 13647, 13668, 13689, 13710, 13731, 13752, 13773, 13794, 13815, 13836, 13857,
      13878, 13899, 13920, 13941, 13962, 13983, 14004, 14025, 14045, 14066, 14087, 14108,
      14129, 14149, 14170, 14191, 14212, 14232, 14253, 14274, 14295, 14315, 14336, 14357,
      14377, 14398, 14418, 14439, 14460, 14480, 14501, 14521, 14542, 14562, 14583, 14603,
      14624, 14644, 14665, 14685, 14706, 14726, 14747, 14767, 14787, 14808, 14828, 14848,
      14869, 14889, 14909, 14930, 14950, 14970, 14991, 15011, 15031, 15051, 15071, 15092,
      15112, 15132, 15152, 15172, 15192, 15213, 15233, 15253, 15273, 15293, 15313, 15333,
      15353, 15373, 15393, 15413, 15433, 15453, 15473, 15493, 15513, 15533, 15553, 15573,
      15593, 15612, 15632, 15652, 15672, 15692, 15712, 15731, 15751, 15771, 15791, 15811,
      15830, 15850, 15870, 15889, 15909, 15929, 15948, 15968, 15988, 16007, 16027, 16047,
      16066, 16086, 16105, 16125, 16145, 16164, 16184, 16203, 16223, 16242, 16262, 16281,
      16301, 16320, 16340, 16359, 16378, 16398, 16417, 16437, 16456, 16475, 16495, 16514,
      16533, 16553, 16572, 16591, 16610, 16630, 16649, 16668, 16687, 16707, 16726, 16745,
      16764, 16784, 16803, 16822, 16841, 16860, 16879, 16898, 16917, 16937, 16956, 16975,
      16994, 17013, 17032, 17051, 17070, 17089, 17108, 17127, 17146, 17165, 17184, 17203,
      17222, 17240, 17259, 17278, 17297, 17316, 17335, 17354, 17373, 17391, 17410, 17429,
      17448, 17467, 17485, 17504, 17523, 17542, 17560, 17579, 17598, 17616, 17635, 17654,
      17673, 17691, 17710, 17728, 17747, 17766, 17784, 17803, 17821, 17840, 17859, 17877,
      17896, 17914, 17933, 17951, 17970, 17988, 18007, 18025, 18044, 18062, 18080, 18099,
      18117, 18136, 18154, 18173, 18191, 18209, 18228, 18246, 18264, 18283, 18301, 18319,
      18337, 18356, 18374, 18392, 18411, 18429, 18447, 18465, 18483, 18502, 18520, 18538,
      18556, 18574, 18592, 18611, 18629, 18647, 18665, 18683, 18701, 18719, 18737, 18755,
      18773, 18791, 18810, 18828, 18846, 18864, 18882, 18900, 18917, 18935, 18953, 18971,
      18989, 19007, 19025, 19043, 19061, 19079, 19097, 19114, 19132, 19150, 19168, 19186,
      19204, 19221, 19239, 19257, 19275, 19293, 19310, 19328, 19346, 19364, 19381, 19399,
      19417, 19434, 19452, 19470, 19487, 19505, 19523, 19540, 19558, 19576, 19593, 19611,
      19628, 19646, 19663, 19681, 19699, 19716, 19734, 19751, 19769, 19786, 19804, 19821,
      19839, 19856, 19873, 19891, 19908, 19926, 19943, 19961, 19978, 19995, 20013, 20030,
      20048, 20065, 20082, 20100, 20117, 20134, 20151, 20169, 20186, 20203, 20221, 20238,
      20255, 20272, 20290, 20307, 20324, 20341, 20358, 20376, 20393, 20410, 20427, 20444,
      20461, 20479, 20496, 20513, 20530, 20547, 20564, 20581, 20598, 20615, 20632, 20649,
      20666, 20683, 20700, 20717, 20734, 20751, 20768, 20785, 20802, 20819, 20836, 20853,
      20870, 20887, 20904, 20921, 20938, 20955, 20972, 20988, 21005, 21022, 21039, 21056,
      21073, 21089, 21106, 21123, 21140, 21157, 21173, 21190, 21207, 21224, 21240, 21257,
      21274, 21291, 21307, 21324, 21341, 21357, 21374, 21391, 21407, 21424, 21441, 21457,
      21474, 21491, 21507, 21524, 21540, 21557, 21573, 21590, 21607, 21623, 21640, 21656,
      21673, 21689, 21706, 21722, 21739, 21755, 21772, 21788, 21805, 21821, 21837, 21854,
      21870, 21887, 21903, 21920, 21936, 21952, 21969, 21985, 22001, 22018, 22034, 22050,
      22067, 22083, 22099, 22116, 22132, 22148, 22164, 22181, 22197, 22213, 22229, 22246,
      22262, 22278, 22294, 22311, 22327, 22343, 22359, 22375, 22391, 22408, 22424, 22440,
      22456, 22472, 22488, 22504, 22520, 22537, 22553, 22569, 22585, 22601, 22617, 22633,
      22649, 22665, 22681, 22697>>

exp_table ==
    <<32768, 32857, 32946, 33035, 33125, 33215, 33305, 33395, 33486, 33576, 33667, 33759,
      33850, 33942, 34034, 34126, 34219, 34312, 34405, 34498, 34591, 34685, 34779, 34874,
      34968, 35063, 35158, 35253, 35349, 35445, 35541, 35637, 35734, 35831, 35928, 36025,
      36123, 36221, 36319, 36417, 36516, 36615, 36715, 36814, 36914, 37014, 37114, 37215,
      37316, 37417, 37518, 37620, 37722, 37824, 37927, 38030, 38133, 38236, 38340, 38444,
      38548, 38653, 38757, 38863, 38968, 39074, 39180, 39286, 39392, 39499, 39606, 39714,
      39821, 39929, 40037, 40146, 40255, 40364, 40473, 40583, 40693, 40804, 40914, 41025,
      41136, 41248, 41360, 41472, 41584, 41697, 41810, 41923, 42037, 42151, 42265, 42380,
      42495, 42610, 42726, 42841, 42958, 43074, 43191, 43308, 43425, 43543, 43661, 43780,
      43898, 44017, 44137, 44256, 44376, 44497, 44617, 44738, 44859, 44981, 45103, 45225,
      45348, 45471, 45594, 45718, 45842, 45966, 46091, 46216, 46341, 46467, 46593, 46719,
      46846, 46973, 47100, 47228, 47356, 47484, 47613, 47742, 47871, 48001, 48131, 48262,
      48393, 48524, 48655, 48787, 48920, 49052, 49185, 49319, 49452, 49586, 49721, 49856,
      49991, 50126, 50262, 50399, 50535, 50672, 50810, 50947, 51085, 51224, 51363, 51502,
      51642, 51782, 51922, 52063, 52204, 52346, 52488, 52630, 52773, 52916, 53059, 53203,
      53347, 53492, 53637, 53782, 53928, 54074, 54221, 54368, 54515, 54663, 54811, 54960,
      55109, 55258, 55408, 55558, 55709, 55860, 56012, 56163, 56316, 56468, 56622, 56775,
      56929, 57083, 57238, 57393, 57549, 57705, 57861, 58018, 58176, 58333, 58491, 58650,
      58809, 58968, 59128, 59289, 59449, 59611, 59772, 59934, 60097, 60260, 60423, 60587,
      60751, 60916, 61081, 61247, 61413, 61579, 61746, 61914, 62081, 62250, 62419, 62588,
      62757, 62928, 63098, 63269, 63441, 63613, 63785, 63958, 64132, 64306, 64480, 64655,
      64830, 65006, 65182, 65359, 65535>>

(* C integer division, which truncates toward zero *)
c_div(a, b) == IF a >= 0 THEN a \div b ELSE -((-a) \div b)

(* hf_lib_common.c: exp_fixed; the mant and exp fields it stores *)
exp_fixed(x_fixed) ==
    LET k0 == c_div(x_fixed, LNI_2)
        r0 == x_fixed - k0 * LNI_2
        k_exp == IF r0 < 0 THEN k0 - 1 ELSE k0
        r_fixed == IF r0 < 0 THEN r0 + LNI_2 ELSE r0
        scaled == r_fixed * EXP_TABLE_SIZE
        i0 == scaled \div LNI_2
        index == IF i0 >= EXP_TABLE_SIZE THEN EXP_TABLE_SIZE - 1 ELSE i0
        base == exp_table[index + 1]
        mant == IF index < EXP_TABLE_SIZE - 1
                THEN LET frac == Shl(scaled % LNI_2, 8)
                     IN  base + Shr(c_div((exp_table[index + 2] - base) * frac, LNI_2), 8)
                ELSE base
    IN  [mant |-> mant, exp |-> k_exp]

(* hf_ln with the test of the sign ahead of the test for zero *)
hf_ln_unrounded_sign_first(w) ==
    LET input == decompose_half(w)
    IN  IF is_nan(input) \/ input.sign # 0
        THEN Direct(half_float(input.sign, HF_EXP_FULL, 1))
        ELSE IF is_zero(input) THEN Direct(half_float(HF_ZERO_NEG, HF_EXP_FULL, 0))
        ELSE IF is_infinity(input) THEN Direct(input)
        ELSE LET n == normalize_denormalized_mantissa(input)
                 idx == LowBits(Shr(n.mant, HF_PRECISION_SHIFT), HF_MANT_BITS)
                 mant == n.exp * LNI_2 + ln_table[idx + 1]
             IN  IF mant < 0 THEN Rounded(half_float(HF_ZERO_NEG, 0, -mant))
                 ELSE Rounded(half_float(HF_ZERO_POS, 0, mant))

(* hf_lib_exp.c: hf_ln up to its normalize_and_round call *)
hf_ln_unrounded(w) ==
    LET input == decompose_half(w)
    IN  IF is_zero(input) THEN Direct(half_float(HF_ZERO_NEG, HF_EXP_FULL, 0))
        ELSE IF is_nan(input) \/ input.sign # 0
        THEN Direct(half_float(input.sign, HF_EXP_FULL, 1))
        ELSE IF is_infinity(input) THEN Direct(input)
        ELSE LET n == normalize_denormalized_mantissa(input)
                 idx == LowBits(Shr(n.mant, HF_PRECISION_SHIFT), HF_MANT_BITS)
                 mant == n.exp * LNI_2 + ln_table[idx + 1]
             IN  IF mant < 0 THEN Rounded(half_float(HF_ZERO_NEG, 0, -mant))
                 ELSE Rounded(half_float(HF_ZERO_POS, 0, mant))

(* hf_lib_exp.c: hf_ln *)
hf_ln(w, mode) == Finish(hf_ln_unrounded(w), mode)

(* hf_lib_exp.c: hf_exp up to its normalize_and_round call *)
hf_exp_unrounded(w) ==
    LET input == decompose_half(w)
        THRESHOLD_MANT == Shr(3 * HF_MANT_NORM_MIN, 1)
    IN  IF is_nan(input) THEN Direct(half_float(input.sign, HF_EXP_FULL, 1))
        ELSE IF is_infinity(input)
        THEN Direct(half_float(HF_ZERO_POS, IF input.sign = 0 THEN HF_EXP_FULL ELSE 0, 0))
        ELSE IF input.exp > 3 \/ (input.exp = 3 /\ input.mant >= THRESHOLD_MANT)
        THEN Direct(half_float(HF_ZERO_POS, IF input.sign = 0 THEN HF_EXP_FULL ELSE 0, 0))
        ELSE LET signed == IF input.sign # 0 THEN -input.mant ELSE input.mant
                 x_fixed == IF input.exp >= 0 THEN signed * 2 ^ input.exp
                            ELSE signed \div 2 ^ (-input.exp)
                 e == exp_fixed(x_fixed)
             IN  Rounded(half_float(HF_ZERO_POS, e.exp, e.mant))

(* hf_lib_exp.c: hf_exp *)
hf_exp(w, mode) == Finish(hf_exp_unrounded(w), mode)

----------------------------------------------------------------------------
(* hf_lib_arith.c: hf_abs *)
hf_abs(hf) == hf % HF_MASK_SIGN

(* hf_neg with the sign bit set instead of inverted *)
hf_neg_sign_set(hf) == (hf % HF_MASK_SIGN) + HF_MASK_SIGN

(* hf_lib_round.c: hf_neg, hf ^ HF_MASK_SIGN *)
hf_neg(hf) == IF Bit(hf, HF_SIGN_BITS) = 1 THEN hf - HF_MASK_SIGN ELSE hf + HF_MASK_SIGN

(* hf_round: the branch for 0 <= exp < HF_MANT_BITS, a value with          *)
(* frac_bits fraction bits, up to the normalize_and_round call             *)
hf_round_fraction(input) ==
    LET unit == 2 ^ (HF_MANT_BITS - input.exp + HF_PRECISION_SHIFT)
        frac_part == input.mant % unit
        half_bit == unit \div 2
        int_part == input.mant - frac_part
    IN  IF frac_part = 0 THEN input
        ELSE IF frac_part > half_bit \/ (frac_part = half_bit /\ (int_part \div unit) % 2 = 1)
        THEN half_float(input.sign, input.exp, int_part + unit)
        ELSE half_float(input.sign, input.exp, int_part)

(* hf_lib_round.c: hf_round up to its normalize_and_round call *)
hf_round_unrounded(w) ==
    LET input == decompose_half(w)
    IN  IF is_nan(input) \/ is_infinity(input) \/ is_zero(input) THEN Direct(input)
        ELSE IF input.exp < 0
        THEN (IF input.mant < 2 ^ (HF_MANT_SHIFT - 1)
              THEN Direct(half_float(HF_ZERO_POS, HF_EXP_MIN, 0))
              ELSE Direct(half_float(input.sign, 0, HF_MANT_NORM_MIN)))
        ELSE IF input.exp < HF_MANT_BITS
        THEN Rounded(hf_round_fraction(input))
        ELSE Direct(input)

(* hf_lib_round.c: hf_round *)
hf_round(w, mode) == Finish(hf_round_unrounded(w), mode)

(* hf_lib_common.c: check_int_half; -1 stands for "not an integer" *)
check_int_half(hf) ==
    IF is_nan(hf) \/ is_infinity(hf) THEN -1
    ELSE IF hf.mant = 0 /\ hf.exp = -HF_EXP_BIAS THEN 0
    ELSE IF hf.exp = -HF_EXP_BIAS /\ hf.mant # 0 THEN -1
    ELSE IF HF_MANT_SHIFT - hf.exp <= 0 THEN 0
    ELSE IF HF_MANT_SHIFT - hf.exp <= HF_MANT_SHIFT
    THEN (IF hf.mant % 2 ^ (HF_MANT_SHIFT - hf.exp) = 0
          THEN Shr(hf.mant, HF_MANT_SHIFT - hf.exp) ELSE -1)
    ELSE -1

(* the int32_t that a value given as hi * 2^16 + low (0 <= low < 2^16)     *)
(* converts to: the low 32 bits, read as two's complement                  *)
int32_of(hi, low) ==
    (IF hi % 65536 >= 32768 THEN (hi % 65536) - 65536 ELSE hi % 65536) * 65536 + low

(* hf_pow: (int32_t)(((int64_t)exp_fixed_val * ln_base_fixed) >> 15), for  *)
(* 0 <= a < 2^31 and |l| < 2^20; the 64-bit product is built from partial  *)
(* products that stay below 2^31                                           *)
scaled_product(a, l) ==
    LET ah == a \div 32768
        al == a % 32768
        c == (al * (l \div 1024) + (al * (l % 1024)) \div 1024) \div 32
        t1 == (ah \div 256) * (l % 65536)
        t2 == (ah % 256) * (l % 65536)
        low_sum == (t1 % 256) * 256 + (t2 % 65536) + (c % 65536)
        hi_sum == ah * (l \div 65536) + (t1 \div 256) + (t2 \div 65536)
                  + (c \div 65536) + (low_sum \div 65536)
    IN  int32_of(hi_sum, low_sum % 65536)

(* hf_pow: ln(|base|) in Q15 from ln_table, with the interpolation term *)
pow_ln_base_fixed(inputbase) ==
    LET n == normalize_denormalized_mantissa(inputbase)
        idx_ln == LowBits(Shr(n.mant, HF_PRECISION_SHIFT), HF_MANT_BITS)
        base == n.exp * LNI_2 + ln_table[idx_ln + 1]
    IN  IF idx_ln < LN_TABLE_SIZE - 1
        THEN base + ((ln_table[idx_ln + 2] - ln_table[idx_ln + 1])
                         * LowBits(n.mant, HF_PRECISION_SHIFT)) \div 2 ^ HF_PRECISION_SHIFT
        ELSE base

(* the product with the sign of the exponent left out *)
pow_exp_ln_fixed_unsigned(inputbase, inputexp) ==
    scaled_product(IF inputexp.exp >= 0 THEN Shl(inputexp.mant, inputexp.exp)
                   ELSE Shr(inputexp.mant, -inputexp.exp),
                   pow_ln_base_fixed(inputbase))

(* hf_pow: the exponent as a fixed-point number, times ln(|base|) *)
pow_exp_ln_fixed(inputbase, inputexp) ==
    LET exp_fixed_val == IF inputexp.exp >= 0 THEN Shl(inputexp.mant, inputexp.exp)
                         ELSE Shr(inputexp.mant, -inputexp.exp)
        exp_ln_fixed == scaled_product(exp_fixed_val, pow_ln_base_fixed(inputbase))
    IN  IF inputexp.sign # 0 /\ exp_ln_fixed # -2147483647 - 1
        THEN -exp_ln_fixed ELSE exp_ln_fixed

(* hf_pow: the sign of a result whose base is negative *)
pow_parity_sign(inputbase, exp_int_part) ==
    IF inputbase.sign # 0 /\ exp_int_part >= 0 /\ exp_int_part % 2 = 1
    THEN HF_ZERO_NEG ELSE HF_ZERO_POS

(* hf_pow: the branches for a base whose magnitude is not 1 and a nonzero  *)
(* exponent                                                                *)
hf_pow_general(hfbase, inputbase, inputexp, exp_int_part) ==
    IF is_nan(inputbase) \/ is_nan(inputexp)
    THEN Direct(half_float(HF_ZERO_POS, HF_EXP_FULL, 1))
    ELSE IF is_zero(inputbase)
    THEN Direct(half_float(pow_parity_sign(inputbase, exp_int_part),
                           IF inputexp.sign # 0 THEN HF_EXP_FULL ELSE -HF_EXP_BIAS, 0))
    ELSE IF is_infinity(inputbase)
    THEN Direct(half_float(pow_parity_sign(inputbase, exp_int_part),
                           IF inputexp.sign # 0 THEN -HF_EXP_BIAS ELSE HF_EXP_FULL, 0))
    ELSE IF is_infinity(inputexp)
    THEN Direct(half_float(HF_ZERO_POS,
                    IF hf_abs(hfbase) > HF_ONE_POS
                    THEN (IF inputexp.sign # 0 THEN -HF_EXP_BIAS ELSE HF_EXP_FULL)
                    ELSE (IF inputexp.sign # 0 THEN HF_EXP_FULL ELSE -HF_EXP_BIAS), 0))
    ELSE IF inputexp.exp = 0 /\ inputexp.mant = HF_MANT_NORM_MIN /\ inputexp.sign = 0
    THEN Direct(inputbase)
    ELSE IF inputbase.sign # 0 /\ exp_int_part < 0
    THEN Direct(half_float(HF_ZERO_POS, HF_EXP_FULL, 1))
    ELSE Rounded(half_float(pow_parity_sign(inputbase, exp_int_part),
                     exp_fixed(pow_exp_ln_fixed(inputbase, inputexp)).exp,
                     exp_fixed(pow_exp_ln_fixed(inputbase, inputexp)).mant))

(* hf_pow: the branch for a base of magnitude 1 and a nonzero exponent *)
hf_pow_unit_base(inputbase, inputexp, exp_int_part) ==
    IF is_infinity(inputexp) \/ is_nan(inputexp) \/ inputbase.sign = 0
    THEN Direct(half_float(HF_ZERO_POS, 0, HF_MANT_NORM_MIN))
    ELSE IF exp_int_part < 0
    THEN Direct(half_float(HF_ZERO_POS, HF_EXP_FULL, 1))
    ELSE Direct(half_float(IF exp_int_part % 2 = 1 THEN HF_ZERO_NEG ELSE HF_ZERO_POS,
                           0, HF_MANT_NORM_MIN))

(* hf_pow with the NaN test ahead of the tests for a zero exponent and a   *)
(* base of magnitude 1                                                     *)
hf_pow_unrounded_nan_first(hfbase, hfexp) ==
    hf_pow_general(hfbase, decompose_half(hfbase), decompose_half(hfexp),
                   check_int_half(decompose_half(hfexp)))

(* hf_pow up to its normalize_and_round call *)
hf_pow_unrounded(hfbase, hfexp) ==
    IF is_zero(decompose_half(hfexp))
    THEN Direct(half_float(HF_ZERO_POS, 0, HF_MANT_NORM_MIN))
    ELSE IF hf_abs(hfbase) = HF_ONE_POS
    THEN hf_pow_unit_base(decompose_half(hfbase), decompose_half(hfexp),
                          check_int_half(decompose_half(hfexp)))
    ELSE hf_pow_general(hfbase, decompose_half(hfbase), decompose_half(hfexp),
                        check_int_half(decompose_half(hfexp)))

(* hf_lib_exp.c: hf_pow, in a build whose out-of-width shifts behave as wide *)
hf_pow(hfbase, hfexp, mode, wide) ==
    compose_half(IF hf_pow_unrounded(hfbase, hfexp).round
                 THEN normalize_and_round_wide(hf_pow_unrounded(hfbase, hfexp).result,
                                               mode, wide)
                 ELSE hf_pow_unrounded(hfbase, hfexp).result)

----------------------------------------------------------------------------
(* float_to_half(0.5f) *)
HF_HALF_POS == float_to_half([sign |-> 0, exp |-> 126, mant |-> 0])

(* hf_lib_trig.c: hf_atanh, the branch that computes: every finite input   *)
(* of magnitude below 1 that is not subnormal or zero                      *)
hf_atanh_computes(hf) ==
    LET input == decompose_half(hf)
    IN  /\ ~is_nan(input)
        /\ ~is_infinity(input)
        /\ hf_abs(hf) # HF_ONE_POS
        /\ ~(hf_cmp(hf_abs(hf), HF_ONE_POS) > 0)
        /\ ~is_subnormal(input)

(* hf_atanh: lnval = hf_ln(hf_div(hf_add(1, x), hf_sub(1, x))), each call  *)
(* rounding under the current mode                                         *)
hf_atanh_lnval(hf, mode) ==
    hf_ln(hf_div(hf_add(HF_ONE_POS, hf, mode), hf_sub(HF_ONE_POS, hf, mode), mode), mode)

(* hf_lib_trig.c: hf_atanh *)
hf_atanh(hf, mode) ==
    LET input == decompose_half(hf)
    IN  IF is_nan(input) THEN compose_half(half_float(input.sign, HF_EXP_FULL, 1))
        ELSE IF is_infinity(input)
        THEN compose_half(half_float(HF_ZERO_NEG, HF_EXP_FULL, 1))
        ELSE IF hf_abs(hf) = HF_ONE_POS
        THEN compose_half(half_float(input.sign, HF_EXP_FULL, 0))
        ELSE IF hf_cmp(hf_abs(hf), HF_ONE_POS) > 0
        THEN compose_half(half_float(HF_ZERO_POS, HF_EXP_FULL, 1))
        ELSE IF is_subnormal(input) THEN compose_half(input)
        ELSE compose_half(decompose_half(
                 hf_mul(HF_HALF_POS, hf_atanh_lnval(hf, mode), mode)))

----------------------------------------------------------------------------
NoRecord == half_float(0, 0, 0)
NoFloat == [sign |-> 0, exp |-> 0, mant |-> 0]
NoNorm == [called |-> FALSE, in |-> NoRecord, out |-> NoRecord]

Init ==
    /\ current_rounding_mode = HF_ROUND_NEAREST_EVEN
    /\ op = "none"
    /\ hf1 = 0
    /\ hf2 = 0
    /\ ret = 0
    /\ rec = NoRecord
    /\ flt = NoFloat
    /\ norm = NoNorm
    /\ last_set = HF_ROUND_NEAREST_EVEN
    /\ pc = "idle"
    /\ entry_mode = HF_ROUND_NEAREST_EVEN

(* The caller takes the result and is idle again. *)
Return ==
    /\ op # "none"
    /\ op' = "none"
    /\ hf1' = 0
    /\ hf2' = 0
    /\ ret' = 0
    /\ rec' = NoRecord
    /\ flt' = NoFloat
    /\ norm' = NoNorm
    /\ UNCHANGED <<pc, entry_mode, current_rounding_mode, last_set>>

(* decompose_half(w), for any word w *)
CallDecompose ==
    /\ op = "none"
    /\ \E w \in uint16_t :
        /\ op' = "decompose_half"
        /\ hf1' = w
        /\ rec' = decompose_half(w)
    /\ UNCHANGED <<pc, entry_mode, current_rounding_mode, last_set, hf2, ret, flt, norm>>

(* compose_half(&r) on the record the last decompose_half returned *)
CallCompose ==
    /\ op = "decompose_half"
    /\ op' = "compose_half"
    /\ ret' = compose_half(rec)
    /\ UNCHANGED <<pc, entry_mode, current_rounding_mode, last_set, hf1, hf2, rec, flt, norm>>

(* half_to_float(w), for any word w *)
CallHalfToFloat ==
    /\ op = "none"
    /\ \E w \in uint16_t :
        /\ op' = "half_to_float"
        /\ hf1' = w
        /\ flt' = half_to_float(w)
    /\ UNCHANGED <<pc, entry_mode, current_rounding_mode, last_set, hf2, ret, rec, norm>>

(* float_to_half(f) on the float the last half_to_float returned *)
CallFloatToHalf ==
    /\ op = "half_to_float"
    /\ op' = "float_to_half"
    /\ ret' = float_to_half(flt)
    /\ UNCHANGED <<pc, entry_mode, current_rounding_mode, last_set, hf1, hf2, rec, flt, norm>>

(* The operands the functions are called with: both signs; the exponent    *)
(* fields within ExpEdge of 0 (zero, subnormals, smallest normals), of 31  *)
(* (largest normals, Infinity, NaN) and of the bias (around 1.0), and one  *)
(* exponent nine below the bias; the mantissa fields within MantEdge of 0  *)
(* and of 1023, and the middle one.                                        *)
ExpEdge == 1
MantEdge == 1
ExpFields ==
    {e \in 0 .. HF_MASK_EXP :
        \/ e <= ExpEdge
        \/ e >= HF_MASK_EXP - ExpEdge
        \/ (e >= HF_EXP_BIAS - ExpEdge /\ e <= HF_EXP_BIAS + ExpEdge)
        \/ e = HF_EXP_BIAS - 9}
MantFields ==
    {m \in 0 .. HF_MASK_MANT :
        m <= MantEdge \/ m >= HF_MASK_MANT - MantEdge \/ m = 2 ^ (HF_MANT_BITS - 1)}
Operands ==
    {s * HF_MASK_SIGN + e * 2 ^ HF_MANT_BITS + m :
        s \in 0 .. 1, e \in ExpFields, m \in MantFields}

(* hf_set_rounding_mode(mode), for any mode of the enumeration *)
CallSetRoundingMode ==
    /\ op = "none"
    /\ \E mode \in hf_rounding_mode :
        /\ op' = "hf_set_rounding_mode"
        /\ hf1' = mode
        /\ current_rounding_mode' = hf_set_rounding_mode(mode)
        /\ last_set' = mode
    /\ UNCHANGED <<pc, entry_mode, hf2, ret, rec, flt, norm>>

(* hf_get_rounding_mode() *)
CallGetRoundingMode ==
    /\ op = "none"
    /\ op' = "hf_get_rounding_mode"
    /\ ret' = hf_get_rounding_mode(current_rounding_mode)
    /\ UNCHANGED <<pc, entry_mode, current_rounding_mode, last_set, hf1, hf2, rec, flt, norm>>

(* hf_add(a, b) *)
CallAdd ==
    /\ op = "none"
    /\ \E a \in Operands, b \in Operands :
        /\ op' = "hf_add"
        /\ hf1' = a
        /\ hf2' = b
        /\ ret' = hf_add(a, b, current_rounding_mode)
        /\ norm' = NormCall(hf_add_unrounded(a, b), current_rounding_mode)
    /\ UNCHANGED <<pc, entry_mode, current_rounding_mode, last_set, rec, flt>>

(* hf_sub(a, b) *)
CallSub ==
    /\ op = "none"
    /\ \E a \in Operands, b \in Operands :
        /\ op' = "hf_sub"
        /\ hf1' = a
        /\ hf2' = b
        /\ ret' = hf_sub(a, b, current_rounding_mode)
        /\ norm' = NormCall(hf_add_unrounded(a, flip_sign(b)), current_rounding_mode)
    /\ UNCHANGED <<pc, entry_mode, current_rounding_mode, last_set, rec, flt>>

(* hf_mul(a, b) *)
CallMul ==
    /\ op = "none"
    /\ \E a \in Operands, b \in Operands :
        /\ op' = "hf_mul"
        /\ hf1' = a
        /\ hf2' = b
        /\ ret' = hf_mul(a, b, current_rounding_mode)
        /\ norm' = NormCall(hf_mul_unrounded(a, b), current_rounding_mode)
    /\ UNCHANGED <<pc, entry_mode, current_rounding_mode, last_set, rec, flt>>

(* hf_div(a, b) *)
CallDiv ==
    /\ op = "none"
    /\ \E a \in Operands, b \in Operands :
        /\ op' = "hf_div"
        /\ hf1' = a
        /\ hf2' = b
        /\ ret' = hf_div(a, b, current_rounding_mode)
        /\ norm' = NormCall(hf_div_unrounded(a, b), current_rounding_mode)
    /\ UNCHANGED <<pc, entry_mode, current_rounding_mode, last_set, rec, flt>>

(* hf_cmp(a, b) *)
CallCmp ==
    /\ op = "none"
    /\ \E a \in Operands, b \in Operands :
        /\ op' = "hf_cmp"
        /\ hf1' = a
        /\ hf2' = b
        /\ ret' = hf_cmp(a, b)
    /\ UNCHANGED <<pc, entry_mode, current_rounding_mode, last_set, rec, flt, norm>>

(* hf_min(a, b) *)
CallMin ==
    /\ op = "none"
    /\ \E a \in Operands, b \in Operands :
        /\ op' = "hf_min"
        /\ hf1' = a
        /\ hf2' = b
        /\ ret' = hf_min(a, b)
    /\ UNCHANGED <<pc, entry_mode, current_rounding_mode, last_set, rec, flt, norm>>

(* hf_max(a, b) *)
CallMax ==
    /\ op = "none"
    /\ \E a \in Operands, b \in Operands :
        /\ op' = "hf_max"
        /\ hf1' = a
        /\ hf2' = b
        /\ ret' = hf_max(a, b)
    /\ UNCHANGED <<pc, entry_mode, current_rounding_mode, last_set, rec, flt, norm>>

(* hf_abs(a) *)
CallAbs ==
    /\ op = "none"
    /\ \E a \in Operands :
        /\ op' = "hf_abs"
        /\ hf1' = a
        /\ ret' = hf_abs(a)
    /\ UNCHANGED <<pc, entry_mode, current_rounding_mode, last_set, hf2, rec, flt, norm>>

(* hf_neg(a) *)
CallNeg ==
    /\ op = "none"
    /\ \E a \in Operands :
        /\ op' = "hf_neg"
        /\ hf1' = a
        /\ ret' = hf_neg(a)
    /\ UNCHANGED <<pc, entry_mode, current_rounding_mode, last_set, hf2, rec, flt, norm>>

(* a one-operand function f(a): its name, result and normalize_and_round call *)
CallUnary(name, result, unrounded) ==
    /\ op' = name
    /\ ret' = result
    /\ norm' = NormCall(unrounded, current_rounding_mode)

(* hf_inv(a), hf_sqrt(a), hf_rsqrt(a), hf_ln(a), hf_exp(a) *)
CallInv ==
    /\ op = "none"
    /\ \E a \in Operands :
        hf1' = a /\ CallUnary("hf_inv", hf_inv(a, current_rounding_mode), hf_inv_unrounded(a))
    /\ UNCHANGED <<pc, entry_mode, current_rounding_mode, last_set, hf2, rec, flt>>

CallSqrt ==
    /\ op = "none"
    /\ \E a \in Operands :
        hf1' = a /\ CallUnary("hf_sqrt", hf_sqrt(a, current_rounding_mode), hf_sqrt_unrounded(a))
    /\ UNCHANGED <<pc, entry_mode, current_rounding_mode, last_set, hf2, rec, flt>>

CallRsqrt ==
    /\ op = "none"
    /\ \E a \in Operands :
        hf1' = a /\ CallUnary("hf_rsqrt", hf_rsqrt(a, current_rounding_mode), hf_rsqrt_unrounded(a))
    /\ UNCHANGED <<pc, entry_mode, current_rounding_mode, last_set, hf2, rec, flt>>

CallLn ==
    /\ op = "none"
    /\ \E a \in Operands :
        hf1' = a /\ CallUnary("hf_ln", hf_ln(a, current_rounding_mode), hf_ln_unrounded(a))
    /\ UNCHANGED <<pc, entry_mode, current_rounding_mode, last_set, hf2, rec, flt>>

CallExp ==
    /\ op = "none"
    /\ \E a \in Operands :
        hf1' = a /\ CallUnary("hf_exp", hf_exp(a, current_rounding_mode), hf_exp_unrounded(a))
    /\ UNCHANGED <<pc, entry_mode, current_rounding_mode, last_set, hf2, rec, flt>>

(* check_int_half(&hf) on the record decompose_half gives for a word a *)
CallCheckInt ==
    /\ op = "none"
    /\ \E a \in Operands :
        /\ op' = "check_int_half"
        /\ hf1' = a
        /\ ret' = check_int_half(decompose_half(a))
    /\ UNCHANGED <<pc, entry_mode, current_rounding_mode, last_set, hf2, rec, flt, norm>>

(* hf_round(a) *)
CallRound ==
    /\ op = "none"
    /\ \E a \in Operands :
        hf1' = a /\ CallUnary("hf_round", hf_round(a, current_rounding_mode), hf_round_unrounded(a))
    /\ UNCHANGED <<pc, entry_mode, current_rounding_mode, last_set, hf2, rec, flt>>

(* hf_atanh(a); the history variable keeps the last normalize_and_round    *)
(* call, that of the closing hf_mul                                        *)
CallAtanh ==
    /\ op = "none"
    /\ \E a \in Operands :
        /\ hf1' = a
        /\ op' = "hf_atanh"
        /\ ret' = hf_atanh(a, current_rounding_mode)
        /\ norm' = IF hf_atanh_computes(a)
                   THEN NormCall(hf_mul_unrounded(HF_HALF_POS,
                                     hf_atanh_lnval(a, current_rounding_mode)),
                                 current_rounding_mode)
                   ELSE NoNorm
    /\ UNCHANGED <<pc, entry_mode, current_rounding_mode, last_set, hf2, rec, flt>>

(* hf_pow(a, b), in a build whose out-of-width shifts behave as wide *)
CallPow ==
    /\ op = "none"
    /\ \E a \in Operands, b \in Operands, wide \in WideShiftOutcomes :
        /\ op' = "hf_pow"
        /\ hf1' = a
        /\ hf2' = b
        /\ ret' = hf_pow(a, b, current_rounding_mode, wide)
        /\ norm' = IF hf_pow_unrounded(a, b).round
                   THEN [called |-> TRUE, in |-> hf_pow_unrounded(a, b).result,
                         out |-> normalize_and_round_wide(hf_pow_unrounded(a, b).result,
                                                          current_rounding_mode, wide)]
                   ELSE NoNorm
    /\ UNCHANGED <<pc, entry_mode, current_rounding_mode, last_set, rec, flt>>

NextCodec ==
    \/ CallDecompose
    \/ CallCompose
    \/ Return

SpecCodec == Init /\ [][NextCodec]_vars

NextFloat ==
    \/ CallHalfToFloat
    \/ CallFloatToHalf
    \/ Return

SpecFloat == Init /\ [][NextFloat]_vars

(* The whole library: every function of the model, in any order *)
Next ==
    \/ CallSetRoundingMode
    \/ CallGetRoundingMode
    \/ CallAdd
    \/ CallSub
    \/ CallMul
    \/ CallDiv
    \/ CallInv
    \/ CallSqrt
    \/ CallRsqrt
    \/ CallLn
    \/ CallExp
    \/ CallCheckInt
    \/ CallRound
    \/ CallAtanh
    \/ CallPow
    \/ CallCmp
    \/ CallMin
    \/ CallMax
    \/ CallAbs
    \/ CallNeg
    \/ Return

Spec == Init /\ [][Next]_vars

----------------------------------------------------------------------------
(* A call running beside a thread that sets the rounding mode.  The global *)
(* is a plain static int: the call reads it once, in should_round_up, when *)
(* normalize_and_round reaches its rounding step, and the setter stores it *)
(* at any moment.  The racing read yields the value stored last.           *)

(* The functions whose call is followed step by step, and the second       *)
(* operands of the two-operand ones                                        *)
RaceOps == {"hf_add", "hf_mul", "hf_inv", "hf_sqrt", "hf_exp"}
RaceSecondOperands == {w \in Operands : LowBits(w, HF_MANT_BITS) = 0}
RaceArguments(name) ==
    IF name \in {"hf_add", "hf_mul"}
    THEN Operands \X RaceSecondOperands ELSE Operands \X {0}

(* the function called name up to its normalize_and_round call *)
UnroundedOf(name, a, b) ==
    CASE name = "hf_add" -> hf_add_unrounded(a, b)
      [] name = "hf_mul" -> hf_mul_unrounded(a, b)
      [] name = "hf_inv" -> hf_inv_unrounded(a)
      [] name = "hf_sqrt" -> hf_sqrt_unrounded(a)
      [] name = "hf_exp" -> hf_exp_unrounded(a)

(* The call decomposes its operands and computes the record it will hand   *)
(* to normalize_and_round; nothing of this depends on the mode.            *)
RaceEnter ==
    /\ pc = "idle"
    /\ \E name \in RaceOps : \E args \in RaceArguments(name) :
        /\ op' = name
        /\ hf1' = args[1]
        /\ hf2' = args[2]
    /\ pc' = "entered"
    /\ entry_mode' = current_rounding_mode
    /\ UNCHANGED <<current_rounding_mode, last_set, ret, rec, flt, norm>>

(* a variant of RaceRound that rounds under the mode the call began with *)
RaceRoundIsolated ==
    /\ pc = "entered"
    /\ ret' = Finish(UnroundedOf(op, hf1, hf2), entry_mode)
    /\ norm' = NormCall(UnroundedOf(op, hf1, hf2), entry_mode)
    /\ pc' = "rounded"
    /\ UNCHANGED <<current_rounding_mode, last_set, op, hf1, hf2, rec, flt, entry_mode>>

(* normalize_and_round: should_round_up switches on current_rounding_mode  *)
(* as it is now, and the call composes its return value.                   *)
RaceRound ==
    /\ pc = "entered"
    /\ ret' = Finish(UnroundedOf(op, hf1, hf2), current_rounding_mode)
    /\ norm' = NormCall(UnroundedOf(op, hf1, hf2), current_rounding_mode)
    /\ pc' = "rounded"
    /\ UNCHANGED <<current_rounding_mode, last_set, op, hf1, hf2, rec, flt, entry_mode>>

(* The call returns. *)
RaceLeave ==
    /\ pc = "rounded"
    /\ pc' = "idle"
    /\ op' = "none"
    /\ hf1' = 0
    /\ hf2' = 0
    /\ ret' = 0
    /\ norm' = NoNorm
    /\ UNCHANGED <<current_rounding_mode, last_set, rec, flt, entry_mode>>

(* hf_set_rounding_mode(mode) on the other thread, wherever the call is *)
RaceSet ==
    /\ \E mode \in hf_rounding_mode :
        /\ current_rounding_mode' = hf_set_rounding_mode(mode)
        /\ last_set' = mode
    /\ UNCHANGED <<op, hf1, hf2, ret, rec, flt, norm, pc, entry_mode>>

NextRace ==
    \/ RaceEnter
    \/ RaceRound
    \/ RaceLeave
    \/ RaceSet

SpecRace == Init /\ [][NextRace]_vars

----------------------------------------------------------------------------
(* The loops of the library, one pass at a time.  rec holds the variables  *)
(* of the running loop and the number of passes made so far.               *)

(* the words hf_sqrt runs normalize_denormalized_mantissa and square_root  *)
(* on: positive, finite and not zero                                       *)
LoopOperands ==
    {a \in Operands :
        /\ decompose_half(a).sign = 0
        /\ ~is_zero(decompose_half(a))
        /\ ~is_infinity(decompose_half(a))
        /\ ~is_nan(decompose_half(a))}

(* normalize_and_round: shift = 24 ... temp <<= shift, on the mantissa a   *)
(* function hands over                                                     *)
LoopEnterMsb ==
    /\ pc = "idle"
    /\ \E name \in RaceOps : \E args \in RaceArguments(name) :
        /\ UnroundedOf(name, args[1], args[2]).round
        /\ UnroundedOf(name, args[1], args[2]).result.mant # 0
        /\ op' = name
        /\ hf1' = args[1]
        /\ hf2' = args[2]
        /\ rec' = [loops |-> 0,
                   mant |-> UnroundedOf(name, args[1], args[2]).result.mant,
                   shift |-> msb_probe(UnroundedOf(name, args[1], args[2]).result.mant)]
    /\ pc' = "msb"
    /\ UNCHANGED <<current_rounding_mode, last_set, ret, flt, norm, entry_mode>>

(* while((int32_t)temp > 0) {temp <<= 1; shift++;} *)
LoopStepMsb ==
    /\ pc = "msb"
    /\ msb_shift_continues(rec.mant, rec.shift)
    /\ rec' = [rec EXCEPT !.loops = @ + 1, !.shift = @ + 1]
    /\ UNCHANGED <<current_rounding_mode, last_set, op, hf1, hf2, ret, flt, norm, pc, entry_mode>>

(* hf_sqrt: normalize_denormalized_mantissa(&input) *)
LoopEnterDenormalized ==
    /\ pc = "idle"
    /\ \E a \in LoopOperands :
        /\ op' = "hf_sqrt"
        /\ hf1' = a
        /\ rec' = [loops |-> 0, hf |-> decompose_half(a)]
    /\ pc' = "denormalized"
    /\ UNCHANGED <<current_rounding_mode, last_set, hf2, ret, flt, norm, entry_mode>>

(* while(hf->mant <= (HF_MANT_NORM_MIN >> 1)) {hf->mant <<= 1; hf->exp--;} *)
LoopStepDenormalized ==
    /\ pc = "denormalized"
    /\ normalize_denormalized_continues(rec.hf)
    /\ rec' = [rec EXCEPT !.loops = @ + 1, !.hf = normalize_denormalized_step(@)]
    /\ UNCHANGED <<current_rounding_mode, last_set, op, hf1, hf2, ret, flt, norm, pc, entry_mode>>

(* hf_sqrt: square_root(value), root = 0, rest = 0, loop = 16 *)
LoopEnterSquareRoot ==
    /\ pc = "idle"
    /\ \E a \in LoopOperands :
        /\ op' = "hf_sqrt"
        /\ hf1' = a
        /\ rec' = [loops |-> 0,
                   mant |-> normalize_denormalized_mantissa(decompose_half(a)).mant,
                   lshift |-> IF normalize_denormalized_mantissa(decompose_half(a)).exp % 2 = 1
                              THEN 16 ELSE 15,
                   root |-> 0, rest |-> 0]
    /\ pc' = "square_root"
    /\ UNCHANGED <<current_rounding_mode, last_set, hf2, ret, flt, norm, entry_mode>>

(* while(--loop >= 0) { ... } *)
LoopStepSquareRoot ==
    /\ pc = "square_root"
    /\ rec.loops < SQUARE_ROOT_LOOPS
    /\ rec' = [rec EXCEPT
                 !.loops = @ + 1,
                 !.root = square_root_step(rec.mant, rec.lshift, rec.loops, rec.root, rec.rest).root,
                 !.rest = square_root_step(rec.mant, rec.lshift, rec.loops, rec.root, rec.rest).rest]
    /\ UNCHANGED <<current_rounding_mode, last_set, op, hf1, hf2, ret, flt, norm, pc, entry_mode>>

(* the condition of the running loop *)
LoopContinues ==
    CASE pc = "msb" -> msb_shift_continues(rec.mant, rec.shift)
      [] pc = "denormalized" -> normalize_denormalized_continues(rec.hf)
      [] pc = "square_root" -> rec.loops < SQUARE_ROOT_LOOPS
      [] OTHER -> FALSE

(* The condition of the loop is false: the function goes on and returns. *)
LoopExit ==
    /\ pc \in {"msb", "denormalized", "square_root"}
    /\ ~LoopContinues
    /\ pc' = "idle"
    /\ op' = "none"
    /\ hf1' = 0
    /\ hf2' = 0
    /\ rec' = NoRecord
    /\ UNCHANGED <<current_rounding_mode, last_set, ret, flt, norm, entry_mode>>

NextLoops ==
    \/ LoopEnterMsb
    \/ LoopStepMsb
    \/ LoopEnterDenormalized
    \/ LoopStepDenormalized
    \/ LoopEnterSquareRoot
    \/ LoopStepSquareRoot
    \/ LoopExit

(* A function that entered a loop keeps executing: a pass that is enabled  *)
(* is made, and so is the exit.                                            *)
SpecLoops ==
    /\ Init
    /\ [][NextLoops]_vars
    /\ WF_vars(LoopStepMsb)
    /\ WF_vars(LoopStepDenormalized)
    /\ WF_vars(LoopStepSquareRoot)
    /\ WF_vars(LoopExit)


----------------------------------------------------------------------------
(* Predicates on encoded words *)
IsNaNWord(w) == is_nan(decompose_half(w))
IsInfWord(w) == is_infinity(decompose_half(w))
IsZeroWord(w) == is_zero(decompose_half(w))
SignOf(w) == Bit(w, HF_SIGN_BITS)

----------------------------------------------------------------------------
(* The exact value of a finite word: (-1)^SignOf(w) * Significand(w) *     *)
(* 2^UlpExp(w)                                                             *)
ExpField(w) == LowBits(Shr(w, HF_MANT_BITS), HF_EXP_BITS)
MantField(w) == LowBits(w, HF_MANT_BITS)
IsFiniteWord(w) == ExpField(w) # HF_MASK_EXP
Significand(w) == IF ExpField(w) = 0 THEN MantField(w) ELSE 2 ^ HF_MANT_BITS + MantField(w)
UlpExp(w) == IF ExpField(w) = 0 THEN -24 ELSE ExpField(w) - 25
SignedSignificand(w) == IF SignOf(w) = 1 THEN -Significand(w) ELSE Significand(w)
Abs(x) == IF x < 0 THEN -x ELSE x
Min(x, y) == IF x < y THEN x ELSE y
Max(x, y) == IF x > y THEN x ELSE y

RECURSIVE Log2Floor(_)
Log2Floor(n) == IF n < 2 THEN 0 ELSE 1 + Log2Floor(n \div 2)

(* The binary16 magnitude nearest to N * 2^u (N > 0), ties to even: the    *)
(* unit in the last place is 2^q with q = max(floor(log2(N * 2^u)), -14)   *)
(* - 10; M is N * 2^u / 2^q rounded; the word is (q + 24) * 1024 + M,      *)
(* which carries into the exponent field when M reaches 2048, and is       *)
(* Infinity from HF_INFINITY_POS on.                                       *)
RoundNearestEven(N, u) ==
    LET q == Max(Log2Floor(N) + u, -14) - 10
        d == q - u
        M == IF d <= 0 THEN N * 2 ^ (-d)
             ELSE IF d >= 31 THEN 0
             ELSE LET M0 == N \div 2 ^ d
                      r == N % 2 ^ d
                      half == 2 ^ (d - 1)
                  IN  IF r > half \/ (r = half /\ M0 % 2 = 1) THEN M0 + 1 ELSE M0
        word == (q + 24) * 2 ^ HF_MANT_BITS + M
    IN  IF word >= HF_INFINITY_POS THEN HF_INFINITY_POS ELSE word

(* The exact sum of two finite words is computed in units of the smaller   *)
(* of their two units in the last place when these are at most ExactWindow *)
(* binary places apart (the sum then stays below 2^31).                    *)
ExactWindow == 18
InWindow(a, b) == Abs(UlpExp(a) - UlpExp(b)) <= ExactWindow
SumUnit(a, b) == Min(UlpExp(a), UlpExp(b))
ExactSum(a, b) ==
    SignedSignificand(a) * 2 ^ (UlpExp(a) - SumUnit(a, b))
    + SignedSignificand(b) * 2 ^ (UlpExp(b) - SumUnit(a, b))

(* IEEE 754 sum under round-to-nearest-even: an exact zero sum is +0       *)
(* unless both operands are -0                                             *)
SumNearestEven(a, b) ==
    LET S == ExactSum(a, b)
    IN  IF S = 0 THEN (IF SignOf(a) = 1 /\ SignOf(b) = 1 THEN HF_ZERO_NEG ELSE HF_ZERO_POS)
        ELSE (IF S < 0 THEN HF_MASK_SIGN ELSE 0) + RoundNearestEven(Abs(S), SumUnit(a, b))

(* IEEE 754 product under round-to-nearest-even *)
ProductNearestEven(a, b) ==
    LET N == Significand(a) * Significand(b)
        sign == IF SignOf(a) = SignOf(b) THEN 0 ELSE HF_MASK_SIGN
    IN  sign + (IF N = 0 THEN 0 ELSE RoundNearestEven(N, UlpExp(a) + UlpExp(b)))

----------------------------------------------------------------------------
(* C1 as stated: for every 16-bit word w, NaN payloads included,           *)
(* compose_half(decompose_half(w)) = w, and for every record r that        *)
(* decompose_half produces decompose_half(compose_half(r)) = r.            *)
C1_RoundTripEveryWord ==
    op = "compose_half" => (ret = hf1 /\ decompose_half(ret) = rec)

(* C1 amended: for every word that is not a NaN the two round trips are    *)
(* the identity; a NaN word composes to the quiet NaN HF_NAN carrying the  *)
(* word's sign bit (its payload is not kept), which decomposes to a NaN    *)
(* record of the same sign.                                                *)
C1_RoundTripNonNaN ==
    op = "compose_half" =>
        IF IsNaNWord(hf1)
        THEN /\ ret = rec.sign + HF_NAN
             /\ is_nan(decompose_half(ret))
             /\ decompose_half(ret).sign = rec.sign
        ELSE ret = hf1 /\ decompose_half(ret) = rec

(* C1 witness: a negative subnormal has been decomposed and composed back *)
C1_Witness ==
    /\ op = "compose_half"
    /\ is_subnormal(rec) /\ rec.mant # 0 /\ rec.sign = HF_MASK_SIGN
    /\ ret = hf1

(* C2: with the mode at nearest-even, for all finite operands hf_add(a, b) *)
(* is the exact sum a + b rounded to nearest, ties to even, and the signed *)
(* Infinity on overflow.                                                   *)
C2_AddCorrectlyRounded ==
    (/\ op = "hf_add"
     /\ current_rounding_mode = HF_ROUND_NEAREST_EVEN
     /\ IsFiniteWord(hf1) /\ IsFiniteWord(hf2)
     /\ InWindow(hf1, hf2))
    => ret = SumNearestEven(hf1, hf2)

(* C3: with the mode at nearest-even, for all finite operands hf_mul(a, b) *)
(* is the exact product rounded to nearest, ties to even, overflowing to   *)
(* the signed Infinity and underflowing through the subnormals to the      *)
(* signed zero.                                                            *)
C3_MulCorrectlyRounded ==
    (/\ op = "hf_mul"
     /\ current_rounding_mode = HF_ROUND_NEAREST_EVEN
     /\ IsFiniteWord(hf1) /\ IsFiniteWord(hf2))
    => ret = ProductNearestEven(hf1, hf2)

(* the sign bit of a product or quotient, as a word *)
XorSign(a, b) == IF SignOf(a) = SignOf(b) THEN 0 ELSE HF_MASK_SIGN

(* C4: for non-NaN operands hf_div gives NaN for Inf/Inf and 0/0; the      *)
(* Infinity of the XOR sign for Inf/finite and nonzero-finite/0; the zero  *)
(* of the XOR sign for finite/Inf and 0/nonzero-finite.                    *)
C4_DivSpecialCases ==
    (op = "hf_div" /\ ~IsNaNWord(hf1) /\ ~IsNaNWord(hf2)) =>
        /\ ((IsInfWord(hf1) /\ IsInfWord(hf2)) \/ (IsZeroWord(hf1) /\ IsZeroWord(hf2)))
              => IsNaNWord(ret)
        /\ ((IsInfWord(hf1) /\ IsFiniteWord(hf2))
              \/ (IsFiniteWord(hf1) /\ ~IsZeroWord(hf1) /\ IsZeroWord(hf2)))
              => ret = XorSign(hf1, hf2) + HF_INFINITY_POS
        /\ ((IsFiniteWord(hf1) /\ IsInfWord(hf2))
              \/ (IsZeroWord(hf1) /\ IsFiniteWord(hf2) /\ ~IsZeroWord(hf2)))
              => ret = XorSign(hf1, hf2) + HF_ZERO_POS

(* C5: hf_cmp(+0, -0) and hf_cmp(-0, +0) both return 0 (equal). *)
C5_ZerosCompareEqual ==
    (op = "hf_cmp" /\ IsZeroWord(hf1) /\ IsZeroWord(hf2) /\ hf1 # hf2) => ret = 0

(* C6: hf_cmp(a, b) is unordered (-2) exactly when a or b is NaN; for      *)
(* non-NaN a and b it is one of less (-1), equal (0), greater (+1), and    *)
(* hf_cmp(b, a) is the mirrored result.                                    *)
C6_CmpMirrored ==
    op = "hf_cmp" =>
        /\ ret = -2 <=> (IsNaNWord(hf1) \/ IsNaNWord(hf2))
        /\ (~IsNaNWord(hf1) /\ ~IsNaNWord(hf2)) =>
              (ret \in {-1, 0, 1} /\ hf_cmp(hf2, hf1) = -ret)

NaNOps == {"hf_add", "hf_sub", "hf_mul", "hf_div", "hf_inv", "hf_sqrt", "hf_rsqrt",
           "hf_ln", "hf_exp"}
TwoOperandOps == {"hf_add", "hf_sub", "hf_mul", "hf_div"}
HasNaNOperand ==
    IsNaNWord(hf1) \/ (op \in TwoOperandOps /\ IsNaNWord(hf2))
FirstNaNSign == IF IsNaNWord(hf1) THEN SignOf(hf1) ELSE SignOf(hf2)

(* C8 as stated: for add, sub, mul, div, inv, sqrt, rsqrt, ln and exp, a   *)
(* NaN operand gives a NaN result whose sign bit is that of the first NaN  *)
(* operand.                                                                *)
C8_NaNKeepsOperandSign ==
    (op \in NaNOps /\ HasNaNOperand) =>
        (IsNaNWord(ret) /\ SignOf(ret) = FirstNaNSign)

(* C8 amended: a NaN operand gives a NaN result for all nine functions.    *)
(* Its sign bit is that of the first NaN operand for add, mul, div, inv,   *)
(* ln and exp; for sub it is that of the first operand when that is NaN    *)
(* and otherwise the inverse of the second operand's; for sqrt and rsqrt   *)
(* it is always 0.                                                         *)
C8_NaNSignPerFunction ==
    (op \in NaNOps /\ HasNaNOperand) =>
        /\ IsNaNWord(ret)
        /\ SignOf(ret) =
             IF op \in {"hf_sqrt", "hf_rsqrt"} THEN 0
             ELSE IF op = "hf_sub" /\ ~IsNaNWord(hf1) THEN 1 - SignOf(hf2)
             ELSE FirstNaNSign

(* C8 witness: hf_add of a negative NaN and a positive NaN returned a      *)
(* negative NaN                                                            *)
C8_Witness ==
    /\ op = "hf_add"
    /\ IsNaNWord(hf1) /\ SignOf(hf1) = 1
    /\ IsNaNWord(hf2) /\ SignOf(hf2) = 0
    /\ IsNaNWord(ret) /\ SignOf(ret) = 1

OutNotBelowIn(in, out) ==
    \/ out.exp = HF_EXP_FULL
    \/ LET d == out.exp - in.exp
       IN  IF d >= 0
           THEN LET q == IF d >= 31 THEN 0 ELSE in.mant \div 2 ^ d
                    exact == d < 31 /\ in.mant % 2 ^ d = 0
                IN  out.mant > q \/ (out.mant = q /\ exact)
           ELSE in.mant <= (IF -d >= 31 THEN 0 ELSE out.mant \div 2 ^ (-d))
OutNotAboveIn(in, out) ==
    /\ out.exp # HF_EXP_FULL
    /\ LET d == out.exp - in.exp
       IN  IF d >= 0
           THEN out.mant <= (IF d >= 31 THEN 0 ELSE in.mant \div 2 ^ d)
           ELSE LET q == IF -d >= 31 THEN 0 ELSE out.mant \div 2 ^ (-d)
                    exact == -d < 31 /\ out.mant % 2 ^ (-d) = 0
                IN  in.mant > q \/ (in.mant = q /\ exact)

(* C10: under toward +inf the value normalize_and_round returns is never   *)
(* less than the value it was given, and under toward -inf never greater,  *)
(* whichever discarded bits are nonzero.                                   *)
C10_DirectedRoundingBounds ==
    norm.called =>
        /\ current_rounding_mode = HF_ROUND_TOWARD_POS_INF =>
              IF norm.in.sign = 0 THEN OutNotBelowIn(norm.in, norm.out)
              ELSE OutNotAboveIn(norm.in, norm.out)
        /\ current_rounding_mode = HF_ROUND_TOWARD_NEG_INF =>
              IF norm.in.sign = 0 THEN OutNotAboveIn(norm.in, norm.out)
              ELSE OutNotBelowIn(norm.in, norm.out)

----------------------------------------------------------------------------
(* The value mant * 2^(exp - HF_MANT_SHIFT) of a record lies exactly       *)
(* halfway between two adjacent binary16 magnitudes: with 2^q the unit in  *)
(* the last place at that magnitude, the bits below 2^q are a one followed *)
(* by zeros.                                                               *)
IsRecordHalfway(r) ==
    /\ r.mant > 0
    /\ LET u == r.exp - HF_MANT_SHIFT
           d == Max(Log2Floor(r.mant) + u, -14) - 10 - u
       IN  d >= 1 /\ d < 31 /\ r.mant % 2 ^ d = 2 ^ (d - 1)

(* the magnitude bits (exponent and mantissa fields) of the word a record  *)
(* composes to                                                             *)
MagnitudeBits(r) == LowBits(compose_half(r), HF_SIGN_BITS)

----------------------------------------------------------------------------
(* The word the operation called name returns for operands a and b (b is   *)
(* unused by the one-operand functions) when the rounding mode is mode.    *)
ResultUnderMode(name, a, b, mode) ==
    CASE name = "hf_add" -> hf_add(a, b, mode)
      [] name = "hf_sub" -> hf_sub(a, b, mode)
      [] name = "hf_mul" -> hf_mul(a, b, mode)
      [] name = "hf_div" -> hf_div(a, b, mode)
      [] name = "hf_inv" -> hf_inv(a, mode)
      [] name = "hf_sqrt" -> hf_sqrt(a, mode)
      [] name = "hf_rsqrt" -> hf_rsqrt(a, mode)
      [] name = "hf_ln" -> hf_ln(a, mode)
      [] name = "hf_exp" -> hf_exp(a, mode)
      [] name = "hf_atanh" -> hf_atanh(a, mode)

(* magnitude order of two result words: NaN only against NaN, otherwise    *)
(* by the exponent and mantissa fields                                     *)
MagnitudeAtMost(w, v) ==
    IF IsNaNWord(w) \/ IsNaNWord(v) THEN IsNaNWord(w) /\ IsNaNWord(v)
    ELSE LowBits(w, HF_SIGN_BITS) <= LowBits(v, HF_SIGN_BITS)

RoundingOps == NaNOps \cup {"hf_atanh"}

(* C12: for every operation and operands, the magnitude of the result      *)
(* computed in toward-zero mode is at most the magnitude of the result     *)
(* computed for the same operands in nearest-even mode.                    *)
C12_TowardZeroNotLarger ==
    (op \in RoundingOps /\ current_rounding_mode = HF_ROUND_TOWARD_ZERO)
    => MagnitudeAtMost(ret, ResultUnderMode(op, hf1, hf2, HF_ROUND_NEAREST_EVEN))

----------------------------------------------------------------------------
(* C13: for non-NaN operands of which at least one is an Infinity, hf_add  *)
(* returns NaN when both are Infinities of opposite sign and otherwise     *)
(* exactly the Infinity operand; hf_sub(a, b) returns exactly hf_add of a  *)
(* and b with its sign bit flipped.                                        *)
C13_AddInfinityAndSub ==
    /\ (/\ op = "hf_add"
        /\ ~IsNaNWord(hf1) /\ ~IsNaNWord(hf2)
        /\ IsInfWord(hf1) \/ IsInfWord(hf2))
       => IF IsInfWord(hf1) /\ IsInfWord(hf2) /\ SignOf(hf1) # SignOf(hf2)
          THEN IsNaNWord(ret)
          ELSE ret = (IF IsInfWord(hf1) THEN hf1 ELSE hf2)
    /\ op = "hf_sub"
       => ret = hf_add(hf1, (hf2 + HF_MASK_SIGN) % (UINT16_MAX + 1),
                       current_rounding_mode)

(* Infinity minus the same Infinity: the flipped operand makes hf_add see  *)
(* Infinities of opposite sign                                             *)
C13_Witness ==
    /\ op = "hf_sub"
    /\ IsInfWord(hf1)
    /\ hf2 = hf1
    /\ IsNaNWord(ret)

----------------------------------------------------------------------------
(* C14: for non-NaN operands hf_mul returns NaN when one operand is a zero *)
(* and the other an Infinity; in every other case the sign bit of the      *)
(* result is the XOR of the operand sign bits, the result is a zero if     *)
(* either operand is a zero and an Infinity if either is an Infinity.      *)
C14_MulSpecialCases ==
    (op = "hf_mul" /\ ~IsNaNWord(hf1) /\ ~IsNaNWord(hf2))
    => IF \/ IsZeroWord(hf1) /\ IsInfWord(hf2)
          \/ IsInfWord(hf1) /\ IsZeroWord(hf2)
       THEN IsNaNWord(ret)
       ELSE /\ ~IsNaNWord(ret)
            /\ SignOf(ret) * HF_MASK_SIGN = XorSign(hf1, hf2)
            /\ (IsZeroWord(hf1) \/ IsZeroWord(hf2)) => IsZeroWord(ret)
            /\ (IsInfWord(hf1) \/ IsInfWord(hf2)) => IsInfWord(ret)

(* a negative zero from a zero and a finite operand of opposite signs *)
C14_Witness ==
    /\ op = "hf_mul"
    /\ IsZeroWord(hf1)
    /\ IsFiniteWord(hf2) /\ ~IsZeroWord(hf2)
    /\ SignOf(hf1) # SignOf(hf2)
    /\ ret = HF_ZERO_NEG

----------------------------------------------------------------------------
(* The steps of an operation that C leaves undefined for some operand      *)
(* values: a shift by count (defined for 0 <= count < WIDTH), a table read *)
(* at index (defined for 0 <= index < size) and a division (defined for a  *)
(* nonzero divisor).                                                       *)
ShiftStep(count) == [kind |-> "shift", value |-> count, limit |-> WIDTH]
IndexStep(index, size) == [kind |-> "index", value |-> index, limit |-> size]
DivideStep(divisor) == [kind |-> "divide", value |-> divisor, limit |-> 0]
StepDefined(h) ==
    IF h.kind = "divide" THEN h.value # 0 ELSE h.value >= 0 /\ h.value < h.limit

(* align_mantissas: the shift of the mantissa of the smaller exponent *)
AlignSteps(a, b) ==
    LET shift == Min(Abs(a.exp - b.exp), 31)
    IN  IF shift > 0 /\ shift < 31 THEN {ShiftStep(shift)} ELSE {}

(* exp_fixed: the reads exp_table[index] and exp_table[index + 1] *)
ExpFixedSteps(x_fixed) ==
    LET k0 == c_div(x_fixed, LNI_2)
        r0 == x_fixed - k0 * LNI_2
        i0 == ((IF r0 < 0 THEN r0 + LNI_2 ELSE r0) * EXP_TABLE_SIZE) \div LNI_2
        index == IF i0 >= EXP_TABLE_SIZE THEN EXP_TABLE_SIZE - 1 ELSE i0
    IN  {IndexStep(index, EXP_TABLE_SIZE + 1)}
        \cup (IF index < EXP_TABLE_SIZE - 1
              THEN {IndexStep(index + 1, EXP_TABLE_SIZE + 1)} ELSE {})

(* hf_ln, hf_pow: the reads ln_table[idx] and, in hf_pow, ln_table[idx + 1] *)
LnIndex(input) ==
    LowBits(Shr(normalize_denormalized_mantissa(input).mant, HF_PRECISION_SHIFT),
            HF_MANT_BITS)

(* hf_exp, hf_pow: the shift that turns the operand into a fixed-point     *)
(* number, and that number for hf_exp                                      *)
FixedShiftStep(input) == ShiftStep(Abs(input.exp))
ExpArgument(input) ==
    IF input.exp >= 0
    THEN (IF input.sign # 0 THEN -input.mant ELSE input.mant) * 2 ^ input.exp
    ELSE (IF input.sign # 0 THEN -input.mant ELSE input.mant) \div 2 ^ (-input.exp)

(* the steps, other than those of normalize_and_round, that the operation  *)
(* called name takes on operands a and b                                   *)
OperandSteps(name, a, b) ==
    CASE name = "hf_add" /\ hf_add_unrounded(a, b).round
           -> AlignSteps(decompose_half(a), decompose_half(b))
      [] name = "hf_sub" /\ hf_add_unrounded(a, flip_sign(b)).round
           -> AlignSteps(decompose_half(a), decompose_half(b))
      [] name = "hf_div" /\ hf_div_unrounded(a, b).round
           -> {DivideStep(decompose_half(b).mant)}
      [] name = "hf_inv" /\ hf_inv_unrounded(a).round
           -> {DivideStep(decompose_half(a).mant)}
      [] name = "hf_rsqrt" /\ hf_rsqrt_unrounded(a).round
           -> {DivideStep(root_of(decompose_half(a)).root)}
      [] name = "hf_ln" /\ hf_ln_unrounded(a).round
           -> {IndexStep(LnIndex(decompose_half(a)), LN_TABLE_SIZE)}
      [] name = "hf_exp" /\ hf_exp_unrounded(a).round
           -> {FixedShiftStep(decompose_half(a))}
              \cup ExpFixedSteps(ExpArgument(decompose_half(a)))
      [] name = "hf_pow" /\ hf_pow_unrounded(a, b).round
           -> {IndexStep(LnIndex(decompose_half(a)), LN_TABLE_SIZE),
               FixedShiftStep(decompose_half(b))}
              \cup (IF LnIndex(decompose_half(a)) < LN_TABLE_SIZE - 1
                    THEN {IndexStep(LnIndex(decompose_half(a)) + 1, LN_TABLE_SIZE)}
                    ELSE {})
              \cup ExpFixedSteps(pow_exp_ln_fixed(decompose_half(a), decompose_half(b)))
      [] OTHER -> {}

(* normalize_and_round: the shift that normalises the record it was given *)
NormalizeSteps(call) ==
    IF call.called /\ call.in.mant # 0 /\ normalize_shift(call.in) # 0
    THEN {ShiftStep(Abs(normalize_shift(call.in)))} ELSE {}

(* C15: every operation returns a 16-bit word without an integer division  *)
(* by zero, a shift by a negative or out-of-width amount, or a table read  *)
(* outside the entries of the table, for every operand and rounding mode.  *)
C15_NoUndefinedStep ==
    op \in RoundingOps \cup {"hf_pow"}
    => /\ ret \in uint16_t
       /\ \A h \in OperandSteps(op, hf1, hf2) \cup NormalizeSteps(norm) : StepDefined(h)

----------------------------------------------------------------------------
(* C16: the rounding step of a call in progress uses the value the global  *)
(* mode has at that step, whatever it was when the call began: the return  *)
(* value is the one the function gives under the mode stored last, so a    *)
(* set that lands between the call's entry and its rounding step changes   *)
(* the result of that call.                                                *)
C16_RoundingReadsGlobal ==
    [][pc = "entered" /\ pc' = "rounded"
         => ret' = ResultUnderMode(op, hf1, hf2, current_rounding_mode)]_vars

(* a call that was invoked under one mode and returns the word of another *)
C16_Witness ==
    /\ pc = "rounded"
    /\ entry_mode # current_rounding_mode
    /\ ret = ResultUnderMode(op, hf1, hf2, current_rounding_mode)
    /\ ret # ResultUnderMode(op, hf1, hf2, entry_mode)

----------------------------------------------------------------------------
(* the search for the MSB proceeds by whole bytes, then bit by bit *)
MSB_PROBE_STEP == 8
MsbSearchMax == MSB_PROBE_STEP - 1
DenormalizedMax == HF_MANT_BITS

LoopsWithinBounds ==
    /\ pc = "msb" => rec.loops <= MsbSearchMax
    /\ pc = "denormalized" => rec.loops <= DenormalizedMax
    /\ pc = "square_root" => rec.loops <= SQUARE_ROOT_LOOPS

(* C17: every loop ends, after a number of passes that is at most a fixed  *)
(* constant whatever the operands: 7 for the search of the most            *)
(* significant bit in normalize_and_round, 10 for the normalisation of a   *)
(* subnormal mantissa, 16 for the integer square root.                     *)
C17_LoopsEndWithinBounds == []LoopsWithinBounds /\ (pc # "idle" ~> pc = "idle")

(* a search for the MSB, and a normalisation, that made every pass allowed *)
C17_Witness ==
    \/ pc = "msb" /\ rec.loops = MsbSearchMax /\ ~LoopContinues
    \/ pc = "square_root" /\ rec.loops = SQUARE_ROOT_LOOPS

----------------------------------------------------------------------------
(* 2^15 times the magnitude of a finite word below 2^10 *)
ScaledMagnitude(w) == decompose_half(w).mant * 2 ^ Max(decompose_half(w).exp, 0)

(* C18: hf_round returns a NaN for a NaN and its operand for an Infinity   *)
(* or a zero; a zero when |x| < 0.5; 1 with the sign of x when             *)
(* 0.5 <= |x| < 1; otherwise a whole number with the sign of x that is at  *)
(* most 0.5 away from x.                                                   *)
C18_RoundToNearestInteger ==
    op = "hf_round"
    => IF IsNaNWord(hf1) THEN IsNaNWord(ret) /\ SignOf(ret) = SignOf(hf1)
       ELSE IF IsInfWord(hf1) \/ IsZeroWord(hf1) THEN ret = hf1
       ELSE IF hf_abs(hf1) < HF_HALF_POS THEN IsZeroWord(ret)
       ELSE IF hf_abs(hf1) < HF_ONE_POS THEN ret = SignOf(hf1) * HF_MASK_SIGN + HF_ONE_POS
       ELSE IF decompose_half(hf1).exp >= HF_MANT_BITS THEN ret = hf1
       ELSE /\ SignOf(ret) = SignOf(hf1)
            /\ IsFiniteWord(ret)
            /\ ScaledMagnitude(ret) % 2 ^ HF_MANT_SHIFT = 0
            /\ 2 * Abs(ScaledMagnitude(ret) - ScaledMagnitude(hf1)) <= 2 ^ HF_MANT_SHIFT

----------------------------------------------------------------------------
----------------------------------------------------------------------------
(* Whether a finite word is a whole number, and an odd one, read from its  *)
(* fields: the value is (1024 + mantissa field) * 2^(exponent field - 25)  *)
(* for a normal word, and no subnormal is whole.                           *)
FractionBits(w) == HF_EXP_BIAS + HF_MANT_BITS - ExpField(w)
IsIntegerWord(w) ==
    \/ IsZeroWord(w)
    \/ /\ IsFiniteWord(w)
       /\ ExpField(w) >= HF_EXP_BIAS
       /\ \/ FractionBits(w) <= 0
          \/ (2 ^ HF_MANT_BITS + MantField(w)) % 2 ^ FractionBits(w) = 0
IsOddIntegerWord(w) ==
    /\ IsIntegerWord(w)
    /\ ~IsZeroWord(w)
    /\ FractionBits(w) >= 0
    /\ ((2 ^ HF_MANT_BITS + MantField(w)) \div 2 ^ FractionBits(w)) % 2 = 1

(* the part of C20 about hf_pow *)
PowNegativeBaseRule ==
    (/\ op = "hf_pow"
     /\ SignOf(hf1) = 1
     /\ ~IsNaNWord(hf1)
     /\ IsFiniteWord(hf2)
     /\ ~IsZeroWord(hf2))
    => /\ IsFiniteWord(hf1) /\ ~IsZeroWord(hf1)
            => (IsNaNWord(ret) <=> ~IsIntegerWord(hf2))
       /\ IsIntegerWord(hf2) => (SignOf(ret) = 1 <=> IsOddIntegerWord(hf2))

(* the part of C20 about check_int_half *)
CheckIntRule ==
    (op = "check_int_half" /\ IsFiniteWord(hf1))
    => /\ ret >= 0 <=> IsIntegerWord(hf1)
       /\ ret >= 0 => (ret % 2 = 1 <=> IsOddIntegerWord(hf1))

----------------------------------------------------------------------------
(* A positive finite word that encodes a power of two, and its logarithm:  *)
(* a normal word with a zero mantissa field, or a subnormal word with one  *)
(* bit set.                                                                *)
IsPowerOfTwoWord(w) ==
    /\ SignOf(w) = 0
    /\ IsFiniteWord(w)
    /\ IF ExpField(w) = 0
       THEN MantField(w) # 0 /\ 2 ^ Log2Floor(MantField(w)) = MantField(w)
       ELSE MantField(w) = 0
PowerOfTwoLog(w) ==
    IF ExpField(w) = 0
    THEN Log2Floor(MantField(w)) - (HF_EXP_BIAS - 1) - HF_MANT_BITS
    ELSE ExpField(w) - HF_EXP_BIAS

(* a * b for a whole number a and a finite word b, as a fraction over      *)
(* PowerProductUnit(b): b is mant * 2^(exp - 15) with mant and exp the     *)
(* fields of its record                                                    *)
PowerProductUnit(b) == 2 ^ (HF_MANT_SHIFT - decompose_half(b).exp)
PowerProductTimesUnit(a, b) ==
    (IF SignOf(b) = 1 THEN -a ELSE a) * decompose_half(b).mant
IsWholePowerProduct(a, b) == Abs(PowerProductTimesUnit(a, b)) % PowerProductUnit(b) = 0
WholePowerProduct(a, b) ==
    IF PowerProductTimesUnit(a, b) >= 0
    THEN PowerProductTimesUnit(a, b) \div PowerProductUnit(b)
    ELSE -((-PowerProductTimesUnit(a, b)) \div PowerProductUnit(b))

(* the hf_pow calls of C21: base 2^a, a * b whole, 2^(a * b) normal *)
IsExactPowerCall ==
    /\ op = "hf_pow"
    /\ IsPowerOfTwoWord(hf1)
    /\ IsFiniteWord(hf2)
    /\ IsWholePowerProduct(PowerOfTwoLog(hf1), hf2)
    /\ WholePowerProduct(PowerOfTwoLog(hf1), hf2) >= HF_EXP_MIN
    /\ WholePowerProduct(PowerOfTwoLog(hf1), hf2) <= HF_EXP_BIAS

----------------------------------------------------------------------------
(* The square of a non-negative finite word y, rounded to binary16, and    *)
(* the words whose square needs no rounding.                               *)
SquareWord(y) == ProductNearestEven(y, y)
IsExactSquare(y) ==
    /\ IsFiniteWord(SquareWord(y))
    /\ Significand(SquareWord(y)) * 2 ^ (UlpExp(SquareWord(y)) - 2 * UlpExp(y))
           = Significand(y) * Significand(y)
SquareRoots == {y \in 0 .. HF_INFINITY_POS - 1 : IsExactSquare(y)}
ExactSquares == {SquareWord(y) : y \in SquareRoots}

(* hf_sqrt(a) for a the exact square of a binary16 value *)
CallSqrtOfSquare ==
    /\ op = "none"
    /\ \E a \in ExactSquares :
        hf1' = a /\ CallUnary("hf_sqrt", hf_sqrt(a, current_rounding_mode), hf_sqrt_unrounded(a))
    /\ UNCHANGED <<pc, entry_mode, current_rounding_mode, last_set, hf2, rec, flt>>

NextSquares ==
    \/ CallSetRoundingMode
    \/ CallSqrtOfSquare
    \/ Return

SpecSquares == Init /\ [][NextSquares]_vars

----------------------------------------------------------------------------
(* C23: hf_sqrt returns a NaN for a NaN and for every negative operand but *)
(* -0, -Infinity included; it returns +0 for +0, -0 for -0 and +Infinity   *)
(* for +Infinity.                                                          *)
C23_SqrtSpecialCases ==
    op = "hf_sqrt"
    => /\ IsNaNWord(hf1) \/ (SignOf(hf1) = 1 /\ ~IsZeroWord(hf1)) => IsNaNWord(ret)
       /\ IsZeroWord(hf1) => ret = hf1
       /\ hf1 = HF_INFINITY_POS => ret = HF_INFINITY_POS

(* the square root of -Infinity *)
C23_Witness == op = "hf_sqrt" /\ hf1 = HF_INFINITY_NEG /\ IsNaNWord(ret)

----------------------------------------------------------------------------
(* C24: hf_ln returns -Infinity for +0 and -0, a NaN for a NaN and for     *)
(* every negative nonzero operand, -Infinity included, +Infinity for       *)
(* +Infinity, and +0 for 1.0.                                              *)
C24_LnSpecialCases ==
    op = "hf_ln"
    => /\ IsZeroWord(hf1) => ret = HF_INFINITY_NEG
       /\ IsNaNWord(hf1) \/ (SignOf(hf1) = 1 /\ ~IsZeroWord(hf1)) => IsNaNWord(ret)
       /\ hf1 = HF_INFINITY_POS => ret = HF_INFINITY_POS
       /\ hf1 = HF_ONE_POS => ret = HF_ZERO_POS

(* the logarithm of -0, and of 1.0 *)
C24_Witness ==
    /\ op = "hf_ln"
    /\ \/ hf1 = HF_ZERO_NEG /\ ret = HF_INFINITY_NEG
       \/ hf1 = HF_ONE_POS /\ ret = HF_ZERO_POS

----------------------------------------------------------------------------
(* C25: with exactly one NaN operand hf_min and hf_max return the other    *)
(* operand, and they return a NaN only when both operands are NaN; for     *)
(* zeros of opposite sign hf_min returns -0 and hf_max returns +0 in       *)
(* either order; for every other pair hf_min returns the lesser operand    *)
(* and hf_max the greater.                                                 *)

(* binary16 words without NaN are ordered as sign-magnitude integers *)
OrderKey(w) == IF SignOf(w) = 1 THEN -(w % HF_MASK_SIGN) ELSE w % HF_MASK_SIGN

LesserWord(a, b) == IF OrderKey(b) < OrderKey(a) THEN b ELSE a

GreaterWord(a, b) == IF OrderKey(b) > OrderKey(a) THEN b ELSE a

C25_MinMaxRule ==
    op \in {"hf_min", "hf_max"}
    => IF IsNaNWord(hf1) /\ IsNaNWord(hf2) THEN IsNaNWord(ret)
       ELSE IF IsNaNWord(hf1) THEN ret = hf2
       ELSE IF IsNaNWord(hf2) THEN ret = hf1
       ELSE IF IsZeroWord(hf1) /\ IsZeroWord(hf2) /\ hf1 # hf2
       THEN ret = (IF op = "hf_min" THEN HF_ZERO_NEG ELSE HF_ZERO_POS)
       ELSE ret = (IF op = "hf_min" THEN LesserWord(hf1, hf2) ELSE GreaterWord(hf1, hf2))

----------------------------------------------------------------------------
(* C26: for every word, NaN, Infinity and zero patterns included, hf_abs   *)
(* returns the word with bit 15 cleared and hf_neg the word with bit 15    *)
(* inverted, so that negating twice gives the word back; bits 14..0 of     *)
(* both results are those of the operand.                                  *)
C26_SignBitOnly ==
    /\ op = "hf_abs" => Bit(ret, HF_SIGN_BITS) = 0
    /\ op = "hf_neg" => Bit(ret, HF_SIGN_BITS) = 1 - Bit(hf1, HF_SIGN_BITS) /\ hf_neg(ret) = hf1
    /\ op \in {"hf_abs", "hf_neg"}
       => /\ ret \in uint16_t
          /\ LowBits(ret, HF_SIGN_BITS) = LowBits(hf1, HF_SIGN_BITS)

(* the negation of a negative NaN pattern, the absolute value of -Infinity *)
C26_Witness ==
    \/ op = "hf_neg" /\ IsNaNWord(hf1) /\ SignOf(hf1) = 1 /\ ret = hf1 - HF_MASK_SIGN
    \/ op = "hf_abs" /\ hf1 = HF_INFINITY_NEG /\ ret = HF_INFINITY_POS

----------------------------------------------------------------------------
(* C27: in every rounding mode hf_inv(x) returns the same word as          *)
(* hf_div(0x3C00, x), the quotient of +1.0 by x, for every word x: NaN,    *)
(* Infinity, zero and subnormal words included.                            *)
C27_InvIsDivOfOne ==
    op = "hf_inv" => ret = hf_div(HF_ONE_POS, hf1, current_rounding_mode)

----------------------------------------------------------------------------
(* C28: normalize_denormalized_mantissa returns every nonzero subnormal    *)
(* record with bit 15 of the mantissa set and the value mant * 2^exp       *)
(* unchanged, and leaves a record whose bit 15 is set as it is.            *)
C28_DenormalizedNormalized ==
    pc = "denormalized" /\ ~normalize_denormalized_continues(rec.hf)
    => IF Bit(decompose_half(hf1).mant, HF_MANT_SHIFT) = 1
       THEN rec.hf = decompose_half(hf1)
       ELSE /\ Bit(rec.hf.mant, HF_MANT_SHIFT) = 1
            /\ rec.hf.sign = decompose_half(hf1).sign
            /\ rec.hf.exp <= decompose_half(hf1).exp
            /\ rec.hf.mant = decompose_half(hf1).mant * 2 ^ (decompose_half(hf1).exp - rec.hf.exp)

----------------------------------------------------------------------------
(* normalize_and_round called on a record of any origin.  The exponents    *)
(* run from below the ones whose shift is out of width to above the        *)
(* overflow threshold; the mantissas have their MSB at every position of a *)
(* non-negative int32_t, with several patterns of the bits below it.       *)
NormalizeExps == (HF_EXP_MIN - WIDTH - 2) .. (HF_EXP_BIAS + 2)

NormalizeMants ==
    {0} \cup {2 ^ b + j * (2 ^ b \div 32) : b \in 0 .. 30, j \in {0, 8, 15, 16, 17, 24}}
        \cup {2 ^ b - 1 : b \in 1 .. 30}

NormalizeRecords ==
    {half_float(s, e, m) : s \in {HF_ZERO_POS, HF_ZERO_NEG}, e \in NormalizeExps,
                           m \in NormalizeMants}

(* normalize_and_round(&result), in a build whose out-of-width shifts      *)
(* behave as wide                                                          *)
CallNormalize ==
    /\ op = "none"
    /\ \E result \in NormalizeRecords, wide \in WideShiftOutcomes :
        /\ op' = "normalize_and_round"
        /\ norm' = [called |-> TRUE, in |-> result,
                    out |-> normalize_and_round_wide(result, current_rounding_mode, wide)]
    /\ UNCHANGED <<pc, entry_mode, current_rounding_mode, last_set, hf1, hf2, ret, rec, flt>>

NextNormalize ==
    \/ CallSetRoundingMode
    \/ CallNormalize
    \/ Return

SpecNormalize == Init /\ [][NextNormalize]_vars

----------------------------------------------------------------------------
(* C29: in every rounding mode normalize_and_round leaves a record with a  *)
(* non-negative mantissa with its five precision bits zero, its mantissa   *)
(* below 2^16, its exponent either HF_EXP_FULL with mantissa 0 or between  *)
(* HF_EXP_MIN and HF_EXP_BIAS, and bit 15 of a nonzero mantissa set when   *)
(* the exponent is above HF_EXP_MIN.                                       *)
C29_NormalizedRecord ==
    norm.called /\ norm.in.mant >= 0
    => /\ LowBits(norm.out.mant, HF_PRECISION_SHIFT) = 0
       /\ norm.out.mant >= 0
       /\ norm.out.mant < HF_MANT_NORM_MAX
       /\ \/ norm.out.exp = HF_EXP_FULL /\ norm.out.mant = 0
          \/ norm.out.exp >= HF_EXP_MIN /\ norm.out.exp <= HF_EXP_BIAS
       /\ norm.out.mant # 0 /\ norm.out.exp > HF_EXP_MIN /\ norm.out.exp # HF_EXP_FULL
          => Bit(norm.out.mant, HF_MANT_SHIFT) = 1

----------------------------------------------------------------------------
(* C30: for a finite base of magnitude above 1 and a finite exponent y,    *)
(* hf_pow returns an Infinity when y > 0 and |x|^y exceeds the largest     *)
(* finite value, and a zero when y < 0 and |x|^y is below half the         *)
(* smallest subnormal.  The cases taken here are certain ones: |x| >= 2    *)
(* with y >= 16 gives |x|^y >= 2^16, and |x| >= 2 with y <= -26 gives      *)
(* |x|^y <= 2^-26.                                                         *)
HF_TWO_POS == HF_ONE_POS + 2 ^ HF_MANT_BITS

(* 16.0, the least y with 2^y above every finite value *)
PowOverflowFrom == HF_ONE_POS + 4 * 2 ^ HF_MANT_BITS

(* 26.0, the least y with 2^-y below half the smallest subnormal *)
PowUnderflowFrom == PowOverflowFrom + 5 * 2 ^ (HF_MANT_BITS - 3)

C30_PowExtremes ==
    op = "hf_pow" /\ IsFiniteWord(hf1) /\ IsFiniteWord(hf2) /\ hf_abs(hf1) >= HF_TWO_POS
    => /\ SignOf(hf2) = 0 /\ hf2 >= PowOverflowFrom => IsInfWord(ret)
       /\ SignOf(hf2) = 1 /\ hf_abs(hf2) >= PowUnderflowFrom => IsZeroWord(ret)

====
